---- MODULE Spec2Model ----
(***************************************************************************)
(* Model of system/lib/keymap-util.py (class KeyMapper): key-identifier    *)
(* registry, mapping resolution, window probing, action dispatch and the   *)
(* event loop.                                                             *)
(*                                                                         *)
(* Python strings are modelled as sequences of one-character strings, so   *)
(* that upper(), lower(), strip(), startswith(), `in` and int() are        *)
(* computed character by character.  Optional values are sequences of      *)
(* length at most one: None is << >> and a present value v is << v >>.     *)
(***************************************************************************)
EXTENDS Integers, Sequences, FiniteSets, TLC

(***************************************************************************)
(* Bounds of the model.                                                    *)
(***************************************************************************)
\* Number of events read by run()
MaxEvents == 4

\* Number of window entries of a generated window table
MaxWindows == 2

\* Time stops passing at this many milliseconds.
MaxTime == 300

\* The largest number of keys of a generated table.
MaxKeys == 2

(***************************************************************************)
(* Strings.                                                                *)
(***************************************************************************)
LowerCase == <<"a","b","c","d","e","f","g","h","i","j","k","l","m","n","o","p","q","r","s","t","u","v","w","x","y","z">>
UpperCase == <<"A","B","C","D","E","F","G","H","I","J","K","L","M","N","O","P","Q","R","S","T","U","V","W","X","Y","Z">>

KEY_ == <<"K","E","Y","_">>

cmd_ == <<"c","m","d",":">>

CMD_ == <<"C","M","D",":">>

s_a == <<"a">>

s_A == <<"A">>

s_KEY_A == <<"K","E","Y","_","A">>

s_key_a == <<"k","e","y","_","a">>

s_b == <<"b">>

s_c == <<"c">>

s_1 == <<"1">>

s_2 == <<"2">>

s_9 == <<"9">>

s_0 == <<"0">>

s_00 == <<"0","0">>

s_3 == <<"3">>

s_10 == <<"1","0">>

s_11 == <<"1","1">>

s_12 == <<"1","2">>

s_30 == <<"3","0">>

s_42 == <<"4","2">>

s_54 == <<"5","4">>

s_esc == <<"e","s","c">>

s_escape == <<"e","s","c","a","p","e">>

s_reserved == <<"r","e","s","e","r","v","e","d">>

s_minus == <<"m","i","n","u","s">>

s_KEY_MINUS == <<"K","E","Y","_","M","I","N","U","S">>

s_shift == <<"s","h","i","f","t">>

s_leftshift == <<"l","e","f","t","s","h","i","f","t">>

s_rightshift == <<"r","i","g","h","t","s","h","i","f","t">>

s_KEY_RIGHTSHIFT == <<"K","E","Y","_","R","I","G","H","T","S","H","I","F","T">>

s_zz == <<"z","z">>

s_run == <<"r","u","n">>

s_runw == <<"r","u","n","w">>

s_rung == <<"r","u","n","g">>

s_cmd_x == <<"c","m","d",":","x">>

s_cmd_y == <<"c","m","d",":","y">>

s_krita == <<"k","r","i","t","a">>

s_Krita == <<"K","r","i","t","a">>

s_org_kde_krita == <<"o","r","g",".","k","d","e",".","k","r","i","t","a">>

s_gimp == <<"g","i","m","p">>

s_kri == <<"k","r","i">>

s_krita_padded == <<" ","k","r","i","t","a"," ">>

s_empty == << >>

s_alice == <<"a","l","i","c","e">>

s_root == <<"r","o","o","t">>

s_1000 == <<"1","0","0","0">>

s_run_user_1000 == <<"/","r","u","n","/","u","s","e","r","/","1","0","0","0">>

s_run_user_0 == <<"/","r","u","n","/","u","s","e","r","/","0">>

s_run_user_7 == <<"/","r","u","n","/","u","s","e","r","/","7">>

s_run_user_1000_wayland_0 == <<"/","r","u","n","/","u","s","e","r","/","1","0","0","0","/","w","a","y","l","a","n","d","-","0">>

s_wayland_0 == <<"w","a","y","l","a","n","d","-","0">>

s_display_0 == <<":","0">>

s_tmp == <<"/","t","m","p">>

s_uinput == <<"u","i","n","p","u","t">>

s_dotool == <<"d","o","t","o","o","l">>

s_DoTool == <<"D","o","T","o","o","l">>

s_focus_sh == <<"f","o","c","u","s",".","s","h">>

s_probe_sh == <<"p","r","o","b","e",".","s","h">>

Digits == <<"0","1","2","3","4","5","6","7","8","9">>

None == << >>

Some(v) == << v >>

IsSome(o) == o # << >>

Get(o) == o[1]

\* A dict literal: the function from the keys of a sequence of <<key, value>>
\* pairs to their values.
dict(pairs) ==
  [k \in { pairs[i][1] : i \in 1..Len(pairs) } |->
     pairs[CHOOSE i \in 1..Len(pairs) : pairs[i][1] = k][2]]

\* str.upper() / str.lower(), restricted to ASCII
to_upper == dict([i \in 1..Len(LowerCase) |-> << LowerCase[i], UpperCase[i] >>])

to_lower == dict([i \in 1..Len(UpperCase) |-> << UpperCase[i], LowerCase[i] >>])

digit_value == dict([i \in 1..Len(Digits) |-> << Digits[i], i - 1 >>])

upper_char(c) == IF c \in DOMAIN to_upper THEN to_upper[c] ELSE c

lower_char(c) == IF c \in DOMAIN to_lower THEN to_lower[c] ELSE c

upper(s) == [i \in 1..Len(s) |-> upper_char(s[i])]

lower(s) == [i \in 1..Len(s) |-> lower_char(s[i])]

\* str.startswith(p)
startswith(s, p) == Len(s) >= Len(p) /\ SubSeq(s, 1, Len(p)) = p

\* `a in b` for two strings: a occurs as a contiguous substring of b
contains(b, a) == \E i \in 0..(Len(b) - Len(a)) : SubSeq(b, i + 1, i + Len(a)) = a

\* str.strip(): drops leading and trailing whitespace (the space character here)
RECURSIVE lstrip(_)
lstrip(s) == IF s # << >> /\ Head(s) = " " THEN lstrip(Tail(s)) ELSE s

RECURSIVE rstrip(_)
rstrip(s) == IF s # << >> /\ s[Len(s)] = " " THEN rstrip(SubSeq(s, 1, Len(s) - 1)) ELSE s

strip(s) == rstrip(lstrip(s))

\* str(n) for an integer n
RECURSIVE str_nat(_)
str_nat(n) == IF n < 10 THEN << Digits[n + 1] >> ELSE str_nat(n \div 10) \o << Digits[(n % 10) + 1] >>

str(n) == IF n < 0 THEN << "-" >> \o str_nat(0 - n) ELSE str_nat(n)

IsDigit(c) == c \in DOMAIN digit_value

RECURSIVE digits_value(_, _)
digits_value(s, acc) ==
  IF s = << >> THEN acc
  ELSE IF Head(s) = "_" THEN digits_value(Tail(s), acc)
  ELSE digits_value(Tail(s), 10 * acc + digit_value[Head(s)])

\* int() of a string without surrounding whitespace: one optional sign, then
\* decimal digits that may be separated by single underscores.  The result is
\* None where Python raises ValueError.
int_stripped(t) ==
  LET signed == t # << >> /\ (Head(t) = "+" \/ Head(t) = "-")
      body == IF signed THEN Tail(t) ELSE t
      wellformed ==
        /\ body # << >>
        /\ IsDigit(body[1]) /\ IsDigit(body[Len(body)])
        /\ \A i \in 1..Len(body) : IsDigit(body[i]) \/ body[i] = "_"
        /\ \A i \in 1..(Len(body) - 1) : ~(body[i] = "_" /\ body[i + 1] = "_")
  IN  IF ~wellformed THEN None
      ELSE IF signed /\ Head(t) = "-" THEN Some(0 - digits_value(body, 0))
      ELSE Some(digits_value(body, 0))

\* int(s): surrounding whitespace is ignored.
int(s) == int_stripped(strip(s))

(***************************************************************************)
(* KeyIdentifierRegistry: keycode_to_dotool_name, name_to_keycode,         *)
(* normalize_config_key.                                                   *)
(***************************************************************************)
\* ecodes.KEY of evdev (key code, kernel name), for the codes the program names and
\* for three it does not name (KEY_RESERVED, KEY_MINUS, KEY_CAPSLOCK).
ecodes_KEY ==
  dict(<<
    <<0, <<"K","E","Y","_","R","E","S","E","R","V","E","D">>>>,
    <<1, <<"K","E","Y","_","E","S","C">>>>, <<2, <<"K","E","Y","_","1">>>>,
    <<3, <<"K","E","Y","_","2">>>>, <<4, <<"K","E","Y","_","3">>>>,
    <<5, <<"K","E","Y","_","4">>>>, <<6, <<"K","E","Y","_","5">>>>,
    <<7, <<"K","E","Y","_","6">>>>, <<8, <<"K","E","Y","_","7">>>>,
    <<9, <<"K","E","Y","_","8">>>>, <<10, <<"K","E","Y","_","9">>>>,
    <<11, <<"K","E","Y","_","0">>>>, <<12, <<"K","E","Y","_","M","I","N","U","S">>>>,
    <<14, <<"K","E","Y","_","B","A","C","K","S","P","A","C","E">>>>,
    <<15, <<"K","E","Y","_","T","A","B">>>>, <<16, <<"K","E","Y","_","Q">>>>,
    <<17, <<"K","E","Y","_","W">>>>, <<18, <<"K","E","Y","_","E">>>>,
    <<19, <<"K","E","Y","_","R">>>>, <<20, <<"K","E","Y","_","T">>>>,
    <<21, <<"K","E","Y","_","Y">>>>, <<22, <<"K","E","Y","_","U">>>>,
    <<23, <<"K","E","Y","_","I">>>>, <<24, <<"K","E","Y","_","O">>>>,
    <<25, <<"K","E","Y","_","P">>>>, <<28, <<"K","E","Y","_","E","N","T","E","R">>>>,
    <<29, <<"K","E","Y","_","L","E","F","T","C","T","R","L">>>>,
    <<30, <<"K","E","Y","_","A">>>>, <<31, <<"K","E","Y","_","S">>>>,
    <<32, <<"K","E","Y","_","D">>>>, <<33, <<"K","E","Y","_","F">>>>,
    <<34, <<"K","E","Y","_","G">>>>, <<35, <<"K","E","Y","_","H">>>>,
    <<36, <<"K","E","Y","_","J">>>>, <<37, <<"K","E","Y","_","K">>>>,
    <<38, <<"K","E","Y","_","L">>>>,
    <<42, <<"K","E","Y","_","L","E","F","T","S","H","I","F","T">>>>,
    <<44, <<"K","E","Y","_","Z">>>>, <<45, <<"K","E","Y","_","X">>>>,
    <<46, <<"K","E","Y","_","C">>>>, <<47, <<"K","E","Y","_","V">>>>,
    <<48, <<"K","E","Y","_","B">>>>, <<49, <<"K","E","Y","_","N">>>>,
    <<50, <<"K","E","Y","_","M">>>>,
    <<54, <<"K","E","Y","_","R","I","G","H","T","S","H","I","F","T">>>>,
    <<56, <<"K","E","Y","_","L","E","F","T","A","L","T">>>>,
    <<57, <<"K","E","Y","_","S","P","A","C","E">>>>,
    <<58, <<"K","E","Y","_","C","A","P","S","L","O","C","K">>>>,
    <<59, <<"K","E","Y","_","F","1">>>>, <<60, <<"K","E","Y","_","F","2">>>>,
    <<61, <<"K","E","Y","_","F","3">>>>, <<62, <<"K","E","Y","_","F","4">>>>,
    <<63, <<"K","E","Y","_","F","5">>>>, <<64, <<"K","E","Y","_","F","6">>>>,
    <<65, <<"K","E","Y","_","F","7">>>>, <<66, <<"K","E","Y","_","F","8">>>>,
    <<67, <<"K","E","Y","_","F","9">>>>, <<68, <<"K","E","Y","_","F","1","0">>>>,
    <<87, <<"K","E","Y","_","F","1","1">>>>, <<88, <<"K","E","Y","_","F","1","2">>>>,
    <<97, <<"K","E","Y","_","R","I","G","H","T","C","T","R","L">>>>,
    <<100, <<"K","E","Y","_","R","I","G","H","T","A","L","T">>>>,
    <<102, <<"K","E","Y","_","H","O","M","E">>>>, <<103, <<"K","E","Y","_","U","P">>>>,
    <<104, <<"K","E","Y","_","P","A","G","E","U","P">>>>,
    <<105, <<"K","E","Y","_","L","E","F","T">>>>,
    <<106, <<"K","E","Y","_","R","I","G","H","T">>>>, <<107, <<"K","E","Y","_","E","N","D">>>>,
    <<108, <<"K","E","Y","_","D","O","W","N">>>>,
    <<109, <<"K","E","Y","_","P","A","G","E","D","O","W","N">>>>,
    <<110, <<"K","E","Y","_","I","N","S","E","R","T">>>>,
    <<111, <<"K","E","Y","_","D","E","L","E","T","E">>>>,
    <<125, <<"K","E","Y","_","L","E","F","T","M","E","T","A">>>>,
    <<126, <<"K","E","Y","_","R","I","G","H","T","M","E","T","A">>>>,
    <<183, <<"K","E","Y","_","F","1","3">>>>, <<184, <<"K","E","Y","_","F","1","4">>>>,
    <<185, <<"K","E","Y","_","F","1","5">>>>, <<186, <<"K","E","Y","_","F","1","6">>>>,
    <<187, <<"K","E","Y","_","F","1","7">>>>, <<188, <<"K","E","Y","_","F","1","8">>>>,
    <<189, <<"K","E","Y","_","F","1","9">>>>, <<190, <<"K","E","Y","_","F","2","0">>>>,
    <<191, <<"K","E","Y","_","F","2","1">>>>, <<192, <<"K","E","Y","_","F","2","2">>>>,
    <<193, <<"K","E","Y","_","F","2","3">>>>, <<194, <<"K","E","Y","_","F","2","4">>>>
  >>)

\* key_name_map of keycode_to_dotool_name: (key code, dotool name)
key_name_map ==
  dict(<<
    <<30, <<"a">>>>, <<48, <<"b">>>>, <<46, <<"c">>>>, <<32, <<"d">>>>, <<18, <<"e">>>>,
    <<33, <<"f">>>>, <<34, <<"g">>>>, <<35, <<"h">>>>, <<23, <<"i">>>>, <<36, <<"j">>>>,
    <<37, <<"k">>>>, <<38, <<"l">>>>, <<50, <<"m">>>>, <<49, <<"n">>>>, <<24, <<"o">>>>,
    <<25, <<"p">>>>, <<16, <<"q">>>>, <<19, <<"r">>>>, <<31, <<"s">>>>, <<20, <<"t">>>>,
    <<22, <<"u">>>>, <<47, <<"v">>>>, <<17, <<"w">>>>, <<45, <<"x">>>>, <<21, <<"y">>>>,
    <<44, <<"z">>>>, <<2, <<"1">>>>, <<3, <<"2">>>>, <<4, <<"3">>>>, <<5, <<"4">>>>,
    <<6, <<"5">>>>, <<7, <<"6">>>>, <<8, <<"7">>>>, <<9, <<"8">>>>, <<10, <<"9">>>>,
    <<11, <<"0">>>>, <<57, <<"s","p","a","c","e">>>>, <<28, <<"e","n","t","e","r">>>>,
    <<15, <<"t","a","b">>>>, <<14, <<"b","a","c","k","s","p","a","c","e">>>>,
    <<1, <<"e","s","c","a","p","e">>>>, <<42, <<"s","h","i","f","t">>>>,
    <<54, <<"s","h","i","f","t">>>>, <<29, <<"c","t","r","l">>>>, <<97, <<"c","t","r","l">>>>,
    <<56, <<"a","l","t">>>>, <<100, <<"a","l","t">>>>, <<125, <<"s","u","p","e","r">>>>,
    <<126, <<"s","u","p","e","r">>>>, <<103, <<"u","p">>>>, <<108, <<"d","o","w","n">>>>,
    <<105, <<"l","e","f","t">>>>, <<106, <<"r","i","g","h","t">>>>,
    <<102, <<"h","o","m","e">>>>, <<107, <<"e","n","d">>>>,
    <<104, <<"p","a","g","e","u","p">>>>, <<109, <<"p","a","g","e","d","o","w","n">>>>,
    <<111, <<"d","e","l","e","t","e">>>>, <<110, <<"i","n","s","e","r","t">>>>,
    <<59, <<"f","1">>>>, <<60, <<"f","2">>>>, <<61, <<"f","3">>>>, <<62, <<"f","4">>>>,
    <<63, <<"f","5">>>>, <<64, <<"f","6">>>>, <<65, <<"f","7">>>>, <<66, <<"f","8">>>>,
    <<67, <<"f","9">>>>, <<68, <<"f","1","0">>>>, <<87, <<"f","1","1">>>>,
    <<88, <<"f","1","2">>>>, <<183, <<"f","1","3">>>>, <<184, <<"f","1","4">>>>,
    <<185, <<"f","1","5">>>>, <<186, <<"f","1","6">>>>, <<187, <<"f","1","7">>>>,
    <<188, <<"f","1","8">>>>, <<189, <<"f","1","9">>>>, <<190, <<"f","2","0">>>>,
    <<191, <<"f","2","1">>>>, <<192, <<"f","2","2">>>>, <<193, <<"f","2","3">>>>,
    <<194, <<"f","2","4">>>>
  >>)

\* char_map of name_to_keycode: (character, key code)
char_map ==
  dict(<<
    <<<<"a">>, 30>>, <<<<"b">>, 48>>, <<<<"c">>, 46>>, <<<<"d">>, 32>>, <<<<"e">>, 18>>,
    <<<<"f">>, 33>>, <<<<"g">>, 34>>, <<<<"h">>, 35>>, <<<<"i">>, 23>>, <<<<"j">>, 36>>,
    <<<<"k">>, 37>>, <<<<"l">>, 38>>, <<<<"m">>, 50>>, <<<<"n">>, 49>>, <<<<"o">>, 24>>,
    <<<<"p">>, 25>>, <<<<"q">>, 16>>, <<<<"r">>, 19>>, <<<<"s">>, 31>>, <<<<"t">>, 20>>,
    <<<<"u">>, 22>>, <<<<"v">>, 47>>, <<<<"w">>, 17>>, <<<<"x">>, 45>>, <<<<"y">>, 21>>,
    <<<<"z">>, 44>>, <<<<"1">>, 2>>, <<<<"2">>, 3>>, <<<<"3">>, 4>>, <<<<"4">>, 5>>,
    <<<<"5">>, 6>>, <<<<"6">>, 7>>, <<<<"7">>, 8>>, <<<<"8">>, 9>>, <<<<"9">>, 10>>,
    <<<<"0">>, 11>>
  >>)

\* name_map of name_to_keycode: (name, key code)
name_map ==
  dict(<<
    <<<<"s","p","a","c","e">>, 57>>, <<<<"e","n","t","e","r">>, 28>>, <<<<"t","a","b">>, 15>>,
    <<<<"b","a","c","k","s","p","a","c","e">>, 14>>, <<<<"e","s","c","a","p","e">>, 1>>,
    <<<<"e","s","c">>, 1>>, <<<<"s","h","i","f","t">>, 42>>, <<<<"c","t","r","l">>, 29>>,
    <<<<"c","o","n","t","r","o","l">>, 29>>, <<<<"a","l","t">>, 56>>,
    <<<<"s","u","p","e","r">>, 125>>, <<<<"m","e","t","a">>, 125>>, <<<<"u","p">>, 103>>,
    <<<<"d","o","w","n">>, 108>>, <<<<"l","e","f","t">>, 105>>,
    <<<<"r","i","g","h","t">>, 106>>, <<<<"h","o","m","e">>, 102>>, <<<<"e","n","d">>, 107>>,
    <<<<"p","a","g","e","u","p">>, 104>>, <<<<"p","a","g","e","d","o","w","n">>, 109>>,
    <<<<"d","e","l","e","t","e">>, 111>>, <<<<"i","n","s","e","r","t">>, 110>>,
    <<<<"f","1">>, 59>>, <<<<"f","2">>, 60>>, <<<<"f","3">>, 61>>, <<<<"f","4">>, 62>>,
    <<<<"f","5">>, 63>>, <<<<"f","6">>, 64>>, <<<<"f","7">>, 65>>, <<<<"f","8">>, 66>>,
    <<<<"f","9">>, 67>>, <<<<"f","1","0">>, 68>>, <<<<"f","1","1">>, 87>>,
    <<<<"f","1","2">>, 88>>, <<<<"f","1","3">>, 183>>, <<<<"f","1","4">>, 184>>,
    <<<<"f","1","5">>, 185>>, <<<<"f","1","6">>, 186>>, <<<<"f","1","7">>, 187>>,
    <<<<"f","1","8">>, 188>>, <<<<"f","1","9">>, 189>>, <<<<"f","2","0">>, 190>>,
    <<<<"f","2","1">>, 191>>, <<<<"f","2","2">>, 192>>, <<<<"f","2","3">>, 193>>,
    <<<<"f","2","4">>, 194>>
  >>)

\* d.get(k) for a dict d
get(d, k) == IF k \in DOMAIN d THEN Some(d[k]) ELSE None

\* The first code of ecodes.KEY, in the order of its items, that carries a name.
ecodes_code ==
  [name \in { ecodes_KEY[c] : c \in DOMAIN ecodes_KEY } |->
     CHOOSE c \in DOMAIN ecodes_KEY :
       ecodes_KEY[c] = name /\ \A d \in DOMAIN ecodes_KEY : ecodes_KEY[d] = name => c <= d]

\* for code, name in ecodes.KEY.items(): if name == key_name_upper: return code
ecodes_lookup(name) == get(ecodes_code, name)

keycode_to_dotool_name(key_code) ==
  IF key_code \in DOMAIN key_name_map THEN key_name_map[key_code]
  ELSE << "k", ":" >> \o str(key_code)

\* name_to_keycode without the table of common key names (lines 231-249)
name_to_keycode_kernel_only(key_name) ==
  LET up == upper(key_name)
      key_name_upper == IF startswith(up, KEY_) THEN up ELSE KEY_ \o up
      by_ecodes == ecodes_lookup(key_name_upper)
      by_char == IF Len(key_name) = 1 THEN get(char_map, lower(key_name)) ELSE None
  IN  IF IsSome(by_ecodes) THEN by_ecodes ELSE by_char

name_to_keycode(key_name) ==
  LET up == upper(key_name)
      key_name_upper == IF startswith(up, KEY_) THEN up ELSE KEY_ \o up
      by_ecodes == ecodes_lookup(key_name_upper)
      by_char == IF Len(key_name) = 1 THEN get(char_map, lower(key_name)) ELSE None
      by_name == get(name_map, lower(key_name))
  IN  IF IsSome(by_ecodes) THEN by_ecodes
      ELSE IF IsSome(by_char) THEN by_char
      ELSE by_name

\* `a if a is not None else b` for two optional values
or_else(a, b) == IF IsSome(a) THEN a ELSE b

\* (keycode, self.keycode_to_dotool_name(keycode)), or (None, None)
normalized(keycode) ==
  IF IsSome(keycode) THEN << keycode, Some(keycode_to_dotool_name(Get(keycode))) >>
  ELSE << None, None >>

\* normalize_config_key trying the decimal reading before the name
normalize_config_key_literal_first(key) == normalized(or_else(int(key), name_to_keycode(key)))

\* normalize_config_key without the decimal reading
normalize_config_key_name_only(key) == normalized(name_to_keycode(key))

\* Returns <<keycode, name>>, both optional: the name is tried first and
\* int(key) only when it names no key.
normalize_config_key(key) == normalized(or_else(name_to_keycode(key), int(key)))

(***************************************************************************)
(* MappingResolver: get_mapping.                                           *)
(*                                                                         *)
(* A config is a function from the names of the tables it contains to the  *)
(* tables.  A dict is a sequence of <<key, value>> pairs in insertion      *)
(* order.  The result of get_mapping is one of                             *)
(*   [kind |-> "none"]                      return None                    *)
(*   [kind |-> "command", cmd |-> text]     return ("COMMAND", text)       *)
(*   [kind |-> "key", code |-> n]           return n          (uinput)     *)
(*   [kind |-> "name", name |-> s]          return s          (dotool)     *)
(*   [kind |-> "ValueError"]                int(mapped) raised             *)
(***************************************************************************)
keys(table) == [i \in 1..Len(table) |-> table[i][1]]

\* table[k] for a key k of the table
Lookup(table, k) == table[CHOOSE i \in 1..Len(table) : table[i][1] = k][2]

has_key(table, k) == \E i \in 1..Len(table) : table[i][1] = k

\* A for loop left at its first hit: the first element of seq whose flag is
\* set, or None.
first_of(seq, flags) ==
  LET hits == { i \in 1..Len(seq) : flags[i] }
  IN  IF hits = {} THEN None ELSE Some(seq[CHOOSE i \in hits : \A j \in hits : i <= j])

\* lookup_keys = [str(key_code), key_name, key_name.lower(), key_name.upper()]
lookup_keys(key_code) ==
  LET key_name == keycode_to_dotool_name(key_code)
  IN  << str(key_code), key_name, lower(key_name), upper(key_name) >>

\* w.lower() in window_lower or window_lower in w.lower()
substring_match(w, window) ==
  contains(lower(window), lower(w)) \/ contains(lower(w), lower(window))

\* Exact match, then case-insensitive equality, then substring either way.
window_key(maps, window) ==
  IF has_key(maps, window) THEN Some(window)
  ELSE or_else(first_of(keys(maps), [i \in 1..Len(maps) |-> lower(maps[i][1]) = lower(window)]),
               first_of(keys(maps), [i \in 1..Len(maps) |-> substring_match(maps[i][1], window)]))

\* `if window_key:` and then maps[window_key]
entry_table(maps, wk) ==
  IF IsSome(wk) /\ Get(wk) # << >> THEN Some(Lookup(maps, Get(wk))) ELSE None

\* The table of the window entry chosen for the focused window, if any:
\* `if window and <name> in self.config:` ... `if window_key:`
window_table(config, name, window) ==
  IF IsSome(window) /\ Get(window) # << >> /\ name \in DOMAIN config
  THEN entry_table(config[name], window_key(config[name], Get(window)))
  ELSE None

\* `if <name> in self.config:` for a table that does not depend on the window
global_table(config, name) == IF name \in DOMAIN config THEN Some(config[name]) ELSE None

\* normalized_keycode == key_code
matches(key, key_code) == normalize_config_key(key)[1] = Some(key_code)

\* mapped = table[hit] for the key the for loop stopped at
value_at(table, hit) == IF IsSome(hit) THEN Some(Lookup(table, Get(hit))) ELSE None

\* direct_hit accepting a contained lookup key without normalizing it
direct_hit_unverified(table, candidates, key_code) ==
  first_of(candidates, [i \in 1..Len(candidates) |-> has_key(table, candidates[i])])

\* The first lookup key that is in the table and normalizes to key_code.
direct_hit(table, candidates, key_code) ==
  first_of(candidates, [i \in 1..Len(candidates) |->
                          has_key(table, candidates[i]) /\ matches(candidates[i], key_code)])

\* Phase 1: a lookup key contained in the table whose normalized code is key_code.
direct_lookup(table, key_code) ==
  value_at(table, direct_hit(table, lookup_keys(key_code), key_code))

\* Phase 2: the first key of the table whose normalized code is key_code.
normalized_lookup(table, key_code) ==
  value_at(table, first_of(keys(table), [i \in 1..Len(table) |-> matches(table[i][1], key_code)]))

\* table_lookup without the scan of the normalized config keys
table_lookup_direct_only(table, key_code) == direct_lookup(table, key_code)

\* table_lookup taking the first key in table order that normalizes to key_code
table_lookup_table_order(table, key_code) == normalized_lookup(table, key_code)

table_lookup(table, key_code) ==
  or_else(direct_lookup(table, key_code), normalized_lookup(table, key_code))

\* The value mapped to key_code in an optional table.
found_in(table, key_code) ==
  IF IsSome(table) THEN table_lookup(Get(table), key_code) ELSE None

is_command_mapping(mapped_value) == startswith(mapped_value, cmd_) \/ startswith(mapped_value, CMD_)

get_command_from_mapping(mapped_value) ==
  IF is_command_mapping(mapped_value)
  THEN Some(strip(SubSeq(mapped_value, 5, Len(mapped_value))))
  ELSE None

\* return mapped_name if mapped_name else mapped
dotool_target(mapped_name, mapped) ==
  [kind |-> "name",
   name |-> IF IsSome(mapped_name) /\ Get(mapped_name) # << >> THEN Get(mapped_name) ELSE mapped]

\* int(mapped) as the value returned, or the ValueError it raises
literal_target(literal) ==
  IF IsSome(literal) THEN [kind |-> "key", code |-> Get(literal)] ELSE [kind |-> "ValueError"]

\* return mapped_keycode if mapped_keycode else int(mapped)
uinput_target(mapped_keycode, mapped) ==
  IF IsSome(mapped_keycode) /\ Get(mapped_keycode) # 0
  THEN [kind |-> "key", code |-> Get(mapped_keycode)]
  ELSE literal_target(int(mapped))

\* Conversion of a remap target for the output method.
convert_mapped(mapped, output_method) ==
  IF output_method = "dotool"
  THEN dotool_target(normalize_config_key(mapped)[2], mapped)
  ELSE uinput_target(normalize_config_key(mapped)[1], mapped)

\* `if cmd: return ("COMMAND", cmd)`, otherwise the conversion
command_or(cmd, otherwise) ==
  IF IsSome(cmd) /\ Get(cmd) # << >> THEN [kind |-> "command", cmd |-> Get(cmd)] ELSE otherwise

\* A value found in window_mappings or global_mappings.
key_mapping_result(mapped, output_method) ==
  command_or(get_command_from_mapping(mapped), convert_mapped(mapped, output_method))

\* as_command taking the command out of a value with the prefix of a command
as_command_stripped(hit) ==
  IF IsSome(hit)
  THEN Some([kind |-> "command",
             cmd |-> IF is_command_mapping(Get(hit))
                     THEN strip(SubSeq(Get(hit), 5, Len(Get(hit)))) ELSE Get(hit)])
  ELSE None

\* return ("COMMAND", mapped) for a value found in a table of commands
as_command(hit) ==
  IF IsSome(hit) THEN Some([kind |-> "command", cmd |-> Get(hit)]) ELSE None

\* The return for a value found in a table of key mappings.
as_key_mapping(hit, output_method) ==
  IF IsSome(hit) THEN Some(key_mapping_result(Get(hit), output_method)) ELSE None

\* The value get_mapping returns: that of the first tier with a hit, or None.
returned(result) == IF IsSome(result) THEN Get(result) ELSE [kind |-> "none"]

\* get_mapping consulting both tables of the window before the global ones
get_mapping_window_first(config, output_method, window, key_code) ==
  returned(
    or_else(as_command(found_in(window_table(config, "window_command_mappings", window), key_code)),
    or_else(as_key_mapping(found_in(window_table(config, "window_mappings", window), key_code),
                           output_method),
    or_else(as_command(found_in(global_table(config, "command_mappings"), key_code)),
            as_key_mapping(found_in(global_table(config, "global_mappings"), key_code),
                           output_method)))))

\* get_mapping after the focused window has been obtained.
get_mapping(config, output_method, window, key_code) ==
  returned(
    or_else(as_command(found_in(window_table(config, "window_command_mappings", window), key_code)),
    or_else(as_command(found_in(global_table(config, "command_mappings"), key_code)),
    or_else(as_key_mapping(found_in(window_table(config, "window_mappings", window), key_code),
                           output_method),
            as_key_mapping(found_in(global_table(config, "global_mappings"), key_code),
                           output_method)))))

(***************************************************************************)
(* State of a KeyMapper and of its environment.                            *)
(***************************************************************************)
VARIABLES
  config,             \* self.config, as loaded
  output_method,      \* self.output_method
  uinput,             \* TRUE iff self.uinput is a virtual device
  dotool_process,     \* TRUE iff self.dotool_process is a child process
  current_window,     \* self.current_window (optional string)
  window_cache_time,  \* self.window_cache_time, in milliseconds
  pressed_keys,       \* self.pressed_keys
  now,                \* time.time(), in milliseconds
  loop,               \* position of main(): "Constructing", "Exited", then of run(): "Running", "Draining", "Closed", "Aborted"
  exc,                \* the exception that ended the for loop of run(), or "none"
  hist,               \* one record per event processed by process_event, oldest first
  queried,            \* a key identifier handed to the registry functions
  answer,             \* what the registry functions returned for it
  shutdown,           \* what the finally block of run() did, in order
  environ,            \* os.geteuid() and the variables of os.environ that are read
  args,               \* the command line as parsed by main(), before argparse's defaults
  window_command      \* self.window_command (optional string)

vars == << config, output_method, uinput, dotool_process, current_window,
           window_cache_time, pressed_keys, now, loop, exc, hist, queried, answer, shutdown, environ, args, window_command >>

\* self.window_cache_ttl = 0.1 seconds
window_cache_ttl == 100

\* evdev event values of a key event
KeyValues == { 0, 1, 2 }

(***************************************************************************)
(* WindowContextProvider: get_focused_window.                              *)
(*                                                                         *)
(* probe is the outcome of running the window command: [ok |-> TRUE,       *)
(* stdout |-> s] for exit status 0, [ok |-> FALSE] for a non-zero status,  *)
(* a timeout or a command that cannot be started.  The result gives the    *)
(* returned window, the new cache fields and whether the command was run.  *)
(***************************************************************************)
\* get_focused_window serving the cached window up to and including the TTL
get_focused_window_inclusive_ttl(probe) ==
  IF now - window_cache_time <= window_cache_ttl
  THEN [window |-> current_window, current_window |-> current_window,
        window_cache_time |-> window_cache_time, probed |-> FALSE]
  ELSE IF probe.ok
       THEN LET window == strip(probe.stdout)
                found == IF window # << >> THEN Some(window) ELSE None
            IN  [window |-> found, current_window |-> found,
                 window_cache_time |-> now, probed |-> TRUE]
       ELSE [window |-> current_window, current_window |-> current_window,
             window_cache_time |-> window_cache_time, probed |-> TRUE]

get_focused_window(probe) ==
  IF now - window_cache_time < window_cache_ttl
  THEN [window |-> current_window, current_window |-> current_window,
        window_cache_time |-> window_cache_time, probed |-> FALSE]
  ELSE IF probe.ok
       THEN LET window == strip(probe.stdout)
                found == IF window # << >> THEN Some(window) ELSE None
            IN  [window |-> found, current_window |-> found,
                 window_cache_time |-> now, probed |-> TRUE]
       ELSE [window |-> current_window, current_window |-> current_window,
             window_cache_time |-> window_cache_time, probed |-> TRUE]

(***************************************************************************)
(* Privilege de-escalation: get_original_user and the user a subprocess    *)
(* is started as by get_focused_window and execute_command.                *)
(***************************************************************************)
\* The password database read through pwd.getpwuid: uid -> pw_name.
passwd == (0 :> s_root) @@ (1000 :> s_alice)

run_user_ == <<"/","r","u","n","/","u","s","e","r","/">>

\* `if value:` for the result of os.environ.get: set and not empty.
truthy(value) == IsSome(value) /\ Get(value) # << >>

\* s.find(sep): the 0-based index of the first occurrence of sep in s, or -1.
find(s, sep) ==
  IF contains(s, sep)
  THEN CHOOSE i \in 0..(Len(s) - Len(sep)) :
         /\ SubSeq(s, i + 1, i + Len(sep)) = sep
         /\ \A j \in 0..(i - 1) : SubSeq(s, j + 1, j + Len(sep)) # sep
  ELSE 0 - 1

\* s.split(sep)[0]: the text before the first occurrence of sep, or all of s.
split_0(s, sep) == IF contains(s, sep) THEN SubSeq(s, 1, find(s, sep)) ELSE s

\* s.split(sep)[1] for an s that contains sep: the text between the first
\* occurrence of sep and the next one.
split_1(s, sep) == split_0(SubSeq(s, find(s, sep) + Len(sep) + 1, Len(s)), sep)

\* pwd.getpwuid(uid).pw_name for the result of int(); None where int() raised
\* ValueError or getpwuid raised KeyError.
pw_name(uid) == IF IsSome(uid) THEN get(passwd, Get(uid)) ELSE None

\* Lines 488-496: the user of a session variable that holds a /run/user/<uid> path.
session_user(value) ==
  IF truthy(value) /\ contains(Get(value), run_user_)
  THEN pw_name(int(split_0(split_1(Get(value), run_user_), << "/" >>)))
  ELSE None

\* Lines 477-482: the user named by PKEXEC_UID.
pkexec_user == IF truthy(environ.PKEXEC_UID) THEN pw_name(int(Get(environ.PKEXEC_UID))) ELSE None

\* Lines 485-496: the first session variable that names a user, for euid 0.
first_session_user ==
  IF environ.euid = 0
  THEN or_else(session_user(environ.XDG_RUNTIME_DIR),
               or_else(session_user(environ.WAYLAND_DISPLAY), session_user(environ.DISPLAY)))
  ELSE None

get_original_user ==
  IF truthy(environ.SUDO_USER)
  THEN environ.SUDO_USER
  ELSE or_else(pkexec_user, first_session_user)

\* `original_user = None; if os.geteuid() == 0: original_user = self.get_original_user()`
original_user == IF environ.euid = 0 THEN get_original_user ELSE None

\* The user a subprocess runs as: `runuser -l original_user` when original_user
\* is truthy, else a child of this process with its effective uid.
launched_as(user) == IF truthy(user) THEN Get(user) ELSE passwd[environ.euid]

\* Lines 374-421 of get_focused_window: the user the window command runs as.
probe_user == launched_as(original_user)

\* Lines 542-584 of execute_command: the user the command runs as.
command_user == launched_as(original_user)

(***************************************************************************)
(* ActionDispatcher: send_dotool_key and the output half of process_event. *)
(***************************************************************************)
\* send_dotool_key writing a keydown for every press
send_dotool_key_every_press(key_name, value, pipe_ok) ==
  LET quiet == [lines |-> << >>, pressed_keys |-> pressed_keys, dotool_process |-> dotool_process]
      broken == [lines |-> << >>, pressed_keys |-> pressed_keys, dotool_process |-> FALSE]
  IN  IF ~dotool_process \/ key_name = << >> THEN quiet
      ELSE IF value = 1
           THEN IF pipe_ok
                THEN [lines |-> << [op |-> "line", verb |-> "keydown", name |-> key_name] >>,
                      pressed_keys |-> pressed_keys \cup { key_name },
                      dotool_process |-> dotool_process]
                ELSE broken
      ELSE IF value = 0 /\ key_name \in pressed_keys
           THEN IF pipe_ok
                THEN [lines |-> << [op |-> "line", verb |-> "keyup", name |-> key_name] >>,
                      pressed_keys |-> pressed_keys \ { key_name },
                      dotool_process |-> dotool_process]
                ELSE broken
      ELSE quiet

\* send_dotool_key updating pressed_keys before the write that may fail
send_dotool_key_marks_before_write(key_name, value, pipe_ok) ==
  LET quiet == [lines |-> << >>, pressed_keys |-> pressed_keys, dotool_process |-> dotool_process]
  IN  IF ~dotool_process \/ key_name = << >> THEN quiet
      ELSE IF value = 1 /\ key_name \notin pressed_keys
           THEN [lines |-> IF pipe_ok
                           THEN << [op |-> "line", verb |-> "keydown", name |-> key_name] >>
                           ELSE << >>,
                 pressed_keys |-> pressed_keys \cup { key_name },
                 dotool_process |-> pipe_ok]
      ELSE IF value = 0 /\ key_name \in pressed_keys
           THEN [lines |-> IF pipe_ok
                           THEN << [op |-> "line", verb |-> "keyup", name |-> key_name] >>
                           ELSE << >>,
                 pressed_keys |-> pressed_keys \ { key_name },
                 dotool_process |-> pipe_ok]
      ELSE quiet

\* send_dotool_key writing a keyup for every release
send_dotool_key_every_release(key_name, value, pipe_ok) ==
  LET quiet == [lines |-> << >>, pressed_keys |-> pressed_keys, dotool_process |-> dotool_process]
      broken == [lines |-> << >>, pressed_keys |-> pressed_keys, dotool_process |-> FALSE]
  IN  IF ~dotool_process \/ key_name = << >> THEN quiet
      ELSE IF value = 1 /\ key_name \notin pressed_keys
           THEN IF pipe_ok
                THEN [lines |-> << [op |-> "line", verb |-> "keydown", name |-> key_name] >>,
                      pressed_keys |-> pressed_keys \cup { key_name },
                      dotool_process |-> dotool_process]
                ELSE broken
      ELSE IF value = 0
           THEN IF pipe_ok
                THEN [lines |-> << [op |-> "line", verb |-> "keyup", name |-> key_name] >>,
                      pressed_keys |-> pressed_keys \ { key_name },
                      dotool_process |-> dotool_process]
                ELSE broken
      ELSE quiet

\* The lines written to the stdin of dotool, the new pressed_keys and the new
\* dotool_process.  pipe_ok = FALSE makes write()/flush() raise BrokenPipeError.
send_dotool_key(key_name, value, pipe_ok) ==
  LET quiet == [lines |-> << >>, pressed_keys |-> pressed_keys, dotool_process |-> dotool_process]
      broken == [lines |-> << >>, pressed_keys |-> pressed_keys, dotool_process |-> FALSE]
  IN  IF ~dotool_process \/ key_name = << >> THEN quiet
      ELSE IF value = 1 /\ key_name \notin pressed_keys
           THEN IF pipe_ok
                THEN [lines |-> << [op |-> "line", verb |-> "keydown", name |-> key_name] >>,
                      pressed_keys |-> pressed_keys \cup { key_name },
                      dotool_process |-> dotool_process]
                ELSE broken
      ELSE IF value = 0 /\ key_name \in pressed_keys
           THEN IF pipe_ok
                THEN [lines |-> << [op |-> "line", verb |-> "keyup", name |-> key_name] >>,
                      pressed_keys |-> pressed_keys \ { key_name },
                      dotool_process |-> dotool_process]
                ELSE broken
      ELSE quiet

\* dispatch_key writing a repeat to the uinput device as a press
dispatch_key_repeat_as_press(mapped, key_code, value, pipe_ok) ==
  LET quiet == [lines |-> << >>, pressed_keys |-> pressed_keys, dotool_process |-> dotool_process]
      output_name == IF mapped.kind = "name" THEN mapped.name ELSE keycode_to_dotool_name(key_code)
      output_code == IF mapped.kind = "key" THEN mapped.code ELSE key_code
  IN  IF output_method = "dotool"
      THEN IF dotool_process /\ output_name # << >>
           THEN send_dotool_key(output_name, value, pipe_ok)
           ELSE quiet
      ELSE IF uinput
           THEN [lines |-> << [op |-> "write", type |-> "EV_KEY", code |-> output_code,
                               value |-> IF value = 2 THEN 1 ELSE value],
                             [op |-> "syn"] >>,
                 pressed_keys |-> pressed_keys, dotool_process |-> dotool_process]
           ELSE quiet

\* dispatch_key recording in pressed_keys the keys pressed through uinput
dispatch_key_tracking_uinput(mapped, key_code, value, pipe_ok) ==
  LET quiet == [lines |-> << >>, pressed_keys |-> pressed_keys, dotool_process |-> dotool_process]
      output_name == IF mapped.kind = "name" THEN mapped.name ELSE keycode_to_dotool_name(key_code)
      output_code == IF mapped.kind = "key" THEN mapped.code ELSE key_code
  IN  IF output_method = "dotool"
      THEN IF dotool_process /\ output_name # << >>
           THEN send_dotool_key(output_name, value, pipe_ok)
           ELSE quiet
      ELSE IF uinput
           THEN [lines |-> << [op |-> "write", type |-> "EV_KEY", code |-> output_code, value |-> value],
                             [op |-> "syn"] >>,
                 pressed_keys |-> IF value = 1
                                  THEN pressed_keys \cup { keycode_to_dotool_name(output_code) }
                                  ELSE pressed_keys,
                 dotool_process |-> dotool_process]
           ELSE quiet

\* dispatch_key keeping the press state of dotool per physical key: a line
\* is written for the press of a key that is not held and for the release of a
\* key that is held
dispatch_key_per_physical_key(mapped, key_code, value, pipe_ok) ==
  LET quiet == [lines |-> << >>, pressed_keys |-> pressed_keys, dotool_process |-> dotool_process]
      output_name == IF mapped.kind = "name" THEN mapped.name ELSE keycode_to_dotool_name(key_code)
      output_code == IF mapped.kind = "key" THEN mapped.code ELSE key_code
      events == { i \in 1..Len(hist) : hist[i].type = "EV_KEY" /\ hist[i].code = key_code }
      held == events # {} /\ hist[CHOOSE i \in events : \A j \in events : j <= i].value # 0
  IN  IF output_method = "dotool"
      THEN IF dotool_process /\ output_name # << >>
           THEN IF ~pipe_ok /\ ((value = 1 /\ ~held) \/ (value = 0 /\ held))
                THEN [lines |-> << >>, pressed_keys |-> pressed_keys, dotool_process |-> FALSE]
                ELSE IF value = 1 /\ ~held
                THEN [lines |-> << [op |-> "line", verb |-> "keydown", name |-> output_name] >>,
                      pressed_keys |-> pressed_keys \cup { output_name },
                      dotool_process |-> dotool_process]
                ELSE IF value = 0 /\ held
                THEN [lines |-> << [op |-> "line", verb |-> "keyup", name |-> output_name] >>,
                      pressed_keys |-> pressed_keys \ { output_name },
                      dotool_process |-> dotool_process]
                ELSE quiet
           ELSE quiet
      ELSE IF uinput
           THEN [lines |-> << [op |-> "write", type |-> "EV_KEY", code |-> output_code, value |-> value],
                             [op |-> "syn"] >>,
                 pressed_keys |-> pressed_keys, dotool_process |-> dotool_process]
           ELSE quiet

\* Lines 860-882 of process_event: the key sent for a result that is not a command.
dispatch_key(mapped, key_code, value, pipe_ok) ==
  LET quiet == [lines |-> << >>, pressed_keys |-> pressed_keys, dotool_process |-> dotool_process]
      output_name == IF mapped.kind = "name" THEN mapped.name ELSE keycode_to_dotool_name(key_code)
      output_code == IF mapped.kind = "key" THEN mapped.code ELSE key_code
  IN  IF output_method = "dotool"
      THEN IF dotool_process /\ output_name # << >>
           THEN send_dotool_key(output_name, value, pipe_ok)
           ELSE quiet
      ELSE IF uinput
           THEN [lines |-> << [op |-> "write", type |-> "EV_KEY", code |-> output_code, value |-> value],
                             [op |-> "syn"] >>,
                 pressed_keys |-> pressed_keys, dotool_process |-> dotool_process]
           ELSE quiet

(***************************************************************************)
(* EventLoop: process_event and run.                                       *)
(***************************************************************************)
\* The result of self.get_mapping(key_code) for the window that
\* get_focused_window returned, but None while the key it would send is down.
resolve_event_unless_down(window, key_code) ==
  LET mapped == get_mapping(config, output_method, window, key_code)
  IN  IF mapped.kind = "name" /\ mapped.name \in pressed_keys THEN [kind |-> "none"] ELSE mapped

\* resolve_event giving a repeat or a release the result of the last press of
\* the same key
resolve_event_as_pressed(window, key_code) ==
  LET presses == { i \in 1..Len(hist) :
                     /\ hist[i].type = "EV_KEY" /\ "mapped" \in DOMAIN hist[i]
                     /\ hist[i].code = key_code /\ hist[i].value = 1 }
  IN  IF presses = {}
      THEN get_mapping(config, output_method, window, key_code)
      ELSE hist[CHOOSE i \in presses : \A j \in presses : j <= i].mapped

\* The result of self.get_mapping(key_code) for the window that
\* get_focused_window returned.
resolve_event(window, key_code) == get_mapping(config, output_method, window, key_code)

\* executed_commands running the command for every value of the event
executed_commands_every_value(mapped, value) == << mapped.cmd >>

\* executed_commands running the command only while an output transport is there
executed_commands_with_transport(mapped, value) ==
  IF value = 1 /\ (uinput \/ dotool_process) THEN << mapped.cmd >> ELSE << >>

\* Lines 853-858 of process_event: the commands executed for a command mapping.
executed_commands(mapped, value) == IF value = 1 THEN << mapped.cmd >> ELSE << >>

\* What becomes of a command handed to subprocess.Popen: the process is
\* started and ends, is started and never ends, or cannot be started (Popen
\* raises OSError or FileNotFoundError).
Launches == { "ends", "never_ends", "fails" }

\* execute_command letting the exception of a failed launch leave it
execute_command_raising(commands, launch) ==
  [started |-> IF launch = "fails" THEN << >> ELSE commands,
   raised |-> commands # << >> /\ launch = "fails",
   blocked |-> FALSE]

\* execute_command for each of the commands: Popen returns without waiting for
\* the process, which runs in a session of its own, and `except Exception`
\* swallows the error of a launch that fails.  started are the commands that
\* run, raised tells whether an exception leaves execute_command and blocked
\* whether it waits for a process that never ends.
execute_command(commands, launch) ==
  [started |-> IF launch = "fails" THEN << >> ELSE commands,
   raised |-> FALSE,
   blocked |-> FALSE]

\* process_event for an event of type EV_KEY, called from the for loop of run().
\* The record appended to hist holds the event, the window and the result of
\* its resolution, pressed_keys and dotool_process as they were before it
\* (down, transport), whether its write broke the pipe, the commands executed
\* (exec, launch), the user they ran as (exec_as) and what was written to the transport
\* (out), the time of the call of get_focused_window (at), whether the window
\* command was run and failed (probe_failed) and the user it ran as (probe_as).
handle_key_event(history, key_code, value, probe, pipe_ok, launch) ==
  /\ loop = "Running"
  /\ \E focus \in { get_focused_window(probe) } :
       \E mapped \in { resolve_event(focus.window, key_code) } :
         LET event == [type |-> "EV_KEY", code |-> key_code, value |-> value,
                       window |-> focus.window, probed |-> focus.probed, mapped |-> mapped,
                       down |-> pressed_keys, transport |-> dotool_process,
                       at |-> now, probe_failed |-> focus.probed /\ ~probe.ok,
                       probe_as |-> IF focus.probed THEN Some(probe_user) ELSE None]
         IN  /\ current_window' = focus.current_window
             /\ window_cache_time' = focus.window_cache_time
             /\ IF mapped.kind = "ValueError"
                THEN \* int(mapped) raised inside get_mapping: the exception leaves run()
                     /\ loop' = "Draining"
                     /\ exc' = "ValueError"
                     /\ hist' = Append(history, event @@
                           [broke |-> FALSE, exec |-> << >>, out |-> << >>])
                     /\ UNCHANGED << pressed_keys, dotool_process >>
                ELSE IF mapped.kind = "command"
                THEN \E ran \in { execute_command(executed_commands(mapped, value), launch) } :
                       /\ hist' = Append(history, event @@
                             [broke |-> FALSE, exec |-> ran.started, launch |-> launch,
                              exec_as |-> command_user, out |-> << >>])
                       /\ loop' = IF ran.blocked THEN "Blocked"
                                  ELSE IF ran.raised THEN "Draining" ELSE loop
                       /\ exc' = IF ran.raised THEN "OSError" ELSE exc
                       /\ UNCHANGED << pressed_keys, dotool_process >>
                ELSE \E sent \in { dispatch_key(mapped, key_code, value, pipe_ok) } :
                       /\ hist' = Append(history, event @@
                             [broke |-> dotool_process /\ ~sent.dotool_process,
                              exec |-> << >>, out |-> sent.lines])
                       /\ pressed_keys' = sent.pressed_keys
                       /\ dotool_process' = sent.dotool_process
                       /\ UNCHANGED << loop, exc >>
  /\ UNCHANGED << config, output_method, uinput, now, queried, answer, shutdown, environ, args, window_command >>

\* One turn of `for event in self.device.read_loop(): self.process_event(event)`
\* for a key event: the event is read and handled.
process_key_event(key_code, value, probe, pipe_ok) ==
  /\ Len(hist) < MaxEvents
  /\ handle_key_event(hist, key_code, value, probe, pipe_ok, "ends")

\* The same turn for each outcome of the launch of a mapped command.
process_command_event(key_code, value, probe, launch) ==
  /\ Len(hist) < MaxEvents
  /\ handle_key_event(hist, key_code, value, probe, TRUE, launch)

\* The last record of hist is an event that read_loop() has yielded and
\* process_event has not been called for.
pending == hist # << >> /\ "pending" \in DOMAIN hist[Len(hist)]

\* read_event yielding the next event while one is still to be handled
read_event_ahead(key_code, value) ==
  /\ loop = "Running"
  /\ Len(hist) < MaxEvents
  /\ hist' = Append(hist, [type |-> "EV_KEY", code |-> key_code, value |-> value,
                           pending |-> TRUE])
  /\ UNCHANGED << config, output_method, uinput, dotool_process, current_window,
                  window_cache_time, pressed_keys, now, loop, exc, queried, answer,
                  shutdown, environ, args, window_command >>

\* read_loop() yields a key event: the for statement of run() asks the
\* generator for the next event only when process_event has returned.
read_event(key_code, value) ==
  /\ loop = "Running"
  /\ ~pending
  /\ Len(hist) < MaxEvents
  /\ hist' = Append(hist, [type |-> "EV_KEY", code |-> key_code, value |-> value,
                           pending |-> TRUE])
  /\ UNCHANGED << config, output_method, uinput, dotool_process, current_window,
                  window_cache_time, pressed_keys, now, loop, exc, queried, answer,
                  shutdown, environ, args, window_command >>

\* self.process_event(event) for the event that was read last.
handle_event(probe, pipe_ok) ==
  /\ pending
  /\ handle_key_event(SubSeq(hist, 1, Len(hist) - 1), hist[Len(hist)].code,
                      hist[Len(hist)].value, probe, pipe_ok, "ends")


\* process_event forwarding an event that is not of type EV_KEY to either transport
process_other_event_any_transport(type, code, value) ==
  /\ loop = "Running"
  /\ Len(hist) < MaxEvents
  /\ hist' = Append(hist,
       [type |-> type, code |-> code, value |-> value, exec |-> << >>,
        transport |-> dotool_process,
        out |-> IF uinput \/ dotool_process
                THEN << [op |-> "write", type |-> type, code |-> code, value |-> value] >>
                     \o (IF type = "EV_SYN" THEN << [op |-> "syn"] >> ELSE << >>)
                ELSE << >>])
  /\ UNCHANGED << config, output_method, uinput, dotool_process, current_window,
                  window_cache_time, pressed_keys, now, loop, exc, queried, answer,
                  shutdown, environ, args, window_command >>

\* process_event for an event that is not of type EV_KEY.  The record appended
\* to hist holds the event, dotool_process (transport) and what was written to
\* the uinput device (out).
process_other_event(type, code, value) ==
  /\ loop = "Running"
  /\ Len(hist) < MaxEvents
  /\ hist' = Append(hist,
       [type |-> type, code |-> code, value |-> value, exec |-> << >>,
        transport |-> dotool_process,
        out |-> IF uinput
                THEN << [op |-> "write", type |-> type, code |-> code, value |-> value] >>
                     \o (IF type = "EV_SYN" THEN << [op |-> "syn"] >> ELSE << >>)
                ELSE << >>])
  /\ UNCHANGED << config, output_method, uinput, dotool_process, current_window,
                  window_cache_time, pressed_keys, now, loop, exc, queried, answer,
                  shutdown, environ, args, window_command >>

\* Time passes between two events: time.time() grows by half the cache TTL.
Tick ==
  /\ loop = "Running"
  /\ now + window_cache_ttl \div 2 <= MaxTime
  /\ now' = now + window_cache_ttl \div 2
  /\ UNCHANGED << config, output_method, uinput, dotool_process, current_window,
                  window_cache_time, pressed_keys, loop, exc, hist, queried, answer, shutdown, environ, args, window_command >>

\* The places inside process_event for a key event at which SIGINT can raise
\* KeyboardInterrupt: while subprocess.run waits for the window command
\* ("probe"), after get_mapping has returned and before anything is sent
\* ("resolved"), and after the first call of the dispatch: uinput.write
\* without uinput.syn, stdin.write and flush without the update of
\* pressed_keys ("written").
Cuts == { "probe", "resolved", "written" }

\* Ctrl+C while process_event handles a key event.  KeyboardInterrupt is not an
\* Exception, so no handler below run() catches it: the rest of process_event
\* is skipped and run() goes to its finally block.  The record appended to hist
\* holds the place (cut) and what had been done by then.
interrupted_key_event(key_code, value, probe, pipe_ok, cut) ==
  /\ loop = "Running"
  /\ Len(hist) < MaxEvents
  /\ loop' = "Draining"
  /\ exc' = "KeyboardInterrupt"
  /\ \E focus \in { get_focused_window(probe) } :
       \E mapped \in { resolve_event(focus.window, key_code) } :
         \E sent \in { IF mapped.kind \in { "none", "key", "name" }
                       THEN dispatch_key(mapped, key_code, value, pipe_ok).lines
                       ELSE << >> } :
           LET event == [type |-> "EV_KEY", code |-> key_code, value |-> value,
                         probed |-> focus.probed, down |-> pressed_keys,
                         transport |-> dotool_process, at |-> now, cut |-> cut,
                         exec |-> << >>]
           IN  IF cut = "probe"
               THEN /\ focus.probed
                    /\ hist' = Append(hist, event @@ [resolved |-> FALSE, out |-> << >>])
                    /\ UNCHANGED << current_window, window_cache_time >>
               ELSE /\ mapped.kind # "ValueError"
                    /\ cut = "written" => sent # << >>
                    /\ hist' = Append(hist, event @@
                         [resolved |-> TRUE, mapped |-> mapped,
                          out |-> IF cut = "written" THEN << sent[1] >> ELSE << >>])
                    /\ current_window' = focus.current_window
                    /\ window_cache_time' = focus.window_cache_time
  /\ UNCHANGED << config, output_method, uinput, dotool_process, pressed_keys, now,
                  queried, answer, shutdown, environ, args, window_command >>

\* Ctrl+C while run() waits in read_loop(): `except KeyboardInterrupt`.
Interrupt ==
  /\ loop = "Running"
  /\ loop' = "Draining"
  /\ exc' = "KeyboardInterrupt"
  /\ UNCHANGED << config, output_method, uinput, dotool_process, current_window,
                  window_cache_time, pressed_keys, now, hist, queried, answer, shutdown, environ, args, window_command >>

\* One call made by the finally block of run().
call(name) == [op |-> "call", call |-> name]

\* The calls that may raise inside the finally block of run(); a field is TRUE
\* iff that call raises.
Faults ==
  [stdin_close : BOOLEAN, terminate : BOOLEAN, wait : BOOLEAN,
   uinput_close : BOOLEAN, device_close : BOOLEAN]

NoFaults ==
  { [stdin_close |-> FALSE, terminate |-> FALSE, wait |-> FALSE,
     uinput_close |-> FALSE, device_close |-> FALSE] }

\* Lines 911-917: the three calls on the dotool child share one try block, and
\* `except: pass` ends the block at the first of them that raises.
drain_dotool(f) ==
  IF ~dotool_process THEN << >>
  ELSE IF f.stdin_close THEN << call("stdin.close") >>
  ELSE IF f.terminate THEN << call("stdin.close"), call("terminate") >>
  ELSE << call("stdin.close"), call("terminate"), call("wait") >>

\* Lines 918-921: uinput.close() and device.close() are not inside a try
\* block, so device.close() is only reached when uinput.close() returned.
drain_devices(f) ==
  IF uinput
  THEN IF f.uinput_close
       THEN << call("uinput.close") >>
       ELSE << call("uinput.close"), call("device.close") >>
  ELSE << call("device.close") >>

\* TRUE iff an exception leaves the finally block of run().
drain_raised(f) ==
  IF uinput /\ f.uinput_close THEN TRUE ELSE f.device_close

\* The finally block of run(); an exception other than KeyboardInterrupt is
\* re-raised after it and ends the process, and so does one raised inside it.
Drain(faults) ==
  /\ loop = "Draining"
  /\ \E f \in faults :
       /\ shutdown' = drain_dotool(f) \o drain_devices(f)
       /\ loop' = IF exc = "KeyboardInterrupt" /\ ~drain_raised(f) THEN "Closed" ELSE "Aborted"
  /\ UNCHANGED << config, output_method, uinput, dotool_process, current_window,
                  window_cache_time, pressed_keys, now, exc, hist, queried, answer, environ, args, window_command >>

(***************************************************************************)
(* Construction: KeyMapper.__init__.                                       *)
(***************************************************************************)
\* The outcomes of lines 52-57: no output device was asked for or it could
\* not be created (both FALSE), a uinput device, or a dotool child process.
OutputModes ==
  { [method |-> "uinput", uinput |-> TRUE, dotool |-> FALSE],
    [method |-> "uinput", uinput |-> FALSE, dotool |-> FALSE],
    [method |-> "dotool", uinput |-> FALSE, dotool |-> TRUE],
    [method |-> "dotool", uinput |-> FALSE, dotool |-> FALSE] }

KeyMapperInit(configs, modes, names, environs) ==
  /\ config \in configs
  /\ \E m \in modes :
       /\ output_method = m.method /\ uinput = m.uinput /\ dotool_process = m.dotool
       /\ args = [config |-> TRUE, no_output |-> ~(m.uinput \/ m.dotool),
                  window_command |-> None,
                  output_method |-> Some(IF m.method = "dotool" THEN s_dotool ELSE s_uinput)]
  /\ current_window = None
  /\ window_cache_time = 0
  /\ pressed_keys = {}
  /\ now = window_cache_ttl
  /\ loop = "Running"
  /\ exc = "none"
  /\ hist = << >>
  /\ queried \in names
  /\ answer = [done |-> FALSE]
  /\ shutdown = << >>
  /\ environ \in environs
  /\ window_command = None

(***************************************************************************)
(* Configurations, key codes and probe outcomes used as inputs.            *)
(***************************************************************************)
one(k, v) == << << k, v >> >>

\* A process started from a desktop session without elevated privileges.
DesktopEnviron ==
  [euid |-> 1000, SUDO_USER |-> None, PKEXEC_UID |-> None,
   XDG_RUNTIME_DIR |-> Some(s_run_user_1000), WAYLAND_DISPLAY |-> Some(s_wayland_0),
   DISPLAY |-> Some(s_display_0)]

failed == [ok |-> FALSE]

succeeded(text) == [ok |-> TRUE, stdout |-> text]

\* The event loop is run on these configs.
LoopConfigs ==
  { "command_mappings" :> one(s_a, s_run),
    "global_mappings" :> << << s_a, s_b >>, << s_1, s_zz >> >>,
    ("window_mappings" :> one(s_krita, one(s_a, s_cmd_x))) @@ ("global_mappings" :> one(s_a, s_1)) }

LoopCodes == { 30, 2 }

LoopProbes == { succeeded(s_krita), succeeded(s_gimp) }

OtherEvents == { [type |-> "EV_MSC", code |-> 4, value |-> 30] }

(***************************************************************************)
(* The event loop.                                                         *)
(***************************************************************************)
KeyEvent(codes, values, probes) ==
  \E key_code \in codes, value \in values, probe \in probes, pipe_ok \in BOOLEAN :
    process_key_event(key_code, value, probe, pipe_ok)

OtherEvent(events) ==
  \E e \in events : process_other_event(e.type, e.code, e.value)

Init == KeyMapperInit(LoopConfigs, { m \in OutputModes : m.method = "uinput" \/ m.dotool }, { None },
                      { DesktopEnviron })

Next ==
  \/ KeyEvent(LoopCodes, KeyValues, LoopProbes)
  \/ OtherEvent(OtherEvents)
  \/ Interrupt
  \/ Drain(NoFaults)

Spec == Init /\ [][Next]_vars

(***************************************************************************)
(* Resolution of a single event, over generated configs.                   *)
(***************************************************************************)
TableNames == { "window_command_mappings", "command_mappings", "window_mappings", "global_mappings" }

ResolveCodes == { 0, 1, 2, 3, 10, 11, 12, 30, 42, 54 }

SymbolicNames ==
  { s_reserved, s_esc, s_escape, s_1, s_2, s_9, s_0, s_minus, s_KEY_MINUS, s_a, s_A, s_KEY_A,
    s_key_a, s_shift, s_leftshift, s_rightshift, s_KEY_RIGHTSHIFT, s_zz }

\* One table holding one key, named by a decimal string or by a symbolic name.
ReprConfigs ==
  { tn :> one(k, v) : tn \in { "command_mappings", "global_mappings" },
                      k \in { str(c) : c \in ResolveCodes } \cup SymbolicNames,
                      v \in { s_a, s_cmd_x, s_zz } }

\* Any subset of the four tables, each mapping the key A, with a value that
\* tells the tables apart.
PrecedenceConfigs ==
  { [tn \in present |->
       CASE tn = "window_command_mappings" -> one(s_krita, one(k, s_runw))
         [] tn = "command_mappings" -> one(k, s_rung)
         [] tn = "window_mappings" -> one(s_krita, one(k, wv))
         [] tn = "global_mappings" -> one(k, gv)] :
    present \in SUBSET TableNames, k \in { s_a, s_30, s_KEY_A },
    wv \in { s_b, s_cmd_x }, gv \in { s_c, s_cmd_y } }

ConfigWindows == { s_krita, s_Krita, s_org_kde_krita, s_gimp, s_empty }

\* Up to MaxWindows distinct window names, in every order.
WindowLists ==
  { ws \in UNION { [1..n -> ConfigWindows] : n \in 1..MaxWindows } :
      \A i, j \in 1..Len(ws) : i # j => ws[i] # ws[j] }

\* The command of the i-th window entry of a generated window table.
entry_command(i) == << "r", "u", "n" >> \o str(i)

\* A window table in which the i-th window entry maps the key A to its own command.
WindowConfigs ==
  { tn :> [i \in 1..Len(ws) |-> << ws[i], one(s_a, IF tn = "window_mappings"
                                                    THEN cmd_ \o entry_command(i)
                                                    ELSE entry_command(i)) >>] :
    tn \in { "window_command_mappings", "window_mappings" }, ws \in WindowLists }

ResolveProbes ==
  { succeeded(s_krita), succeeded(s_Krita), succeeded(s_org_kde_krita), succeeded(s_gimp),
    succeeded(s_krita_padded), succeeded(s_empty), failed }

\* Values of a key mapping: with and without the prefix of a command.
MappedValues ==
  { cmd_, CMD_, <<"c","m","d",":"," "," ">>, <<"c","m","d",":"," ","x"," ">>, <<"C","M","D",":","y">>, <<"C","M","D",":"," ">>, <<"C","m","d",":","x">>, <<"c","M","D",":","x">>,
    <<" ","c","m","d",":","x">>, s_cmd_x, s_b }

\* One table of key mappings holding the key A with one of these values.
ValueConfigs ==
  { "global_mappings" :> one(s_a, v) : v \in MappedValues }
    \cup { "window_mappings" :> one(s_krita, one(s_a, v)) : v \in MappedValues }

\* One table of commands holding the key A with one of the same values.
VerbatimConfigs ==
  { "command_mappings" :> one(s_a, v) : v \in MappedValues }
    \cup { "window_command_mappings" :> one(s_krita, one(s_a, v)) : v \in MappedValues }

TableKeys == { s_a, s_A, s_KEY_A, s_key_a, s_30, s_1, s_2, s_zz, s_esc }

\* The key lists of a JSON object: up to MaxKeys different keys, in any order.
KeyLists ==
  { ks \in UNION { [1..n -> TableKeys] : n \in 1..MaxKeys } :
      \A i, j \in 1..Len(ks) : i # j => ks[i] # ks[j] }

\* A table of commands with these keys, each entry with a command of its own.
TableConfigs ==
  { "command_mappings" :> [i \in 1..Len(ks) |-> << ks[i], entry_command(i) >>] : ks \in KeyLists }

InitResolve ==
  KeyMapperInit(ReprConfigs \cup PrecedenceConfigs \cup WindowConfigs \cup ValueConfigs
                  \cup VerbatimConfigs \cup TableConfigs,
                { m \in OutputModes : m.uinput \/ m.dotool }, { None }, { DesktopEnviron })

NextResolve == hist = << >> /\ KeyEvent(ResolveCodes, { 1 }, ResolveProbes)

SpecResolve == InitResolve /\ [][NextResolve]_vars

(***************************************************************************)
(* Key events of one key while time passes and the focus changes.          *)
(***************************************************************************)
\* A window entry for krita and a global entry, both for the key A.
FocusConfigs ==
  { ("window_mappings" :> one(s_krita, one(s_a, s_cmd_x))) @@ ("global_mappings" :> one(s_a, s_1)) }

FocusProbes == { succeeded(s_krita), succeeded(s_gimp), succeeded(s_empty), failed }

InitFocus ==
  KeyMapperInit(FocusConfigs, { m \in OutputModes : m.uinput }, { None }, { DesktopEnviron })

NextFocus ==
  \/ KeyEvent({ 30 }, { 1 }, FocusProbes)
  \/ Tick

SpecFocus == InitFocus /\ [][NextFocus]_vars

(***************************************************************************)
(* Selection of the window entry: window tables whose entries hold         *)
(* different keys, with the table of the next tier behind them.            *)
(***************************************************************************)
\* The i-th window entry maps one key, A or C, to its own command; the table
\* of the next tier maps A.
select_config(ws, ks) ==
  { ("window_command_mappings" :>
       [i \in 1..Len(ws) |-> << ws[i], one(ks[i], entry_command(i)) >>])
      @@ ("command_mappings" :> one(s_a, s_rung)),
    ("window_mappings" :>
       [i \in 1..Len(ws) |-> << ws[i], one(ks[i], cmd_ \o entry_command(i)) >>])
      @@ ("global_mappings" :> one(s_a, cmd_ \o s_rung)) }

SelectConfigs ==
  UNION { UNION { select_config(ws, ks) : ks \in [1..Len(ws) -> { s_a, s_c }] } :
          ws \in WindowLists }

SelectCodes == { 30, 46 }

SelectProbes == { succeeded(s_krita), succeeded(s_Krita), succeeded(s_org_kde_krita) }

InitSelect ==
  KeyMapperInit(SelectConfigs, { m \in OutputModes : m.uinput }, { None }, { DesktopEnviron })

NextSelect == hist = << >> /\ KeyEvent(SelectCodes, { 1 }, SelectProbes)

SpecSelect == InitSelect /\ [][NextSelect]_vars

(***************************************************************************)
(* The focus moves while a key is held: key events with a uinput device,   *)
(* time passing between them.                                              *)
(***************************************************************************)
\* The key A is remapped in krita and elsewhere, to another key or to a command.
RefocusConfigs ==
  { ("window_mappings" :> one(s_krita, one(s_a, s_c))) @@ ("global_mappings" :> one(s_a, s_b)),
    ("window_mappings" :> one(s_krita, one(s_a, s_cmd_x))) @@ ("global_mappings" :> one(s_a, s_b)) }

InitRefocus ==
  KeyMapperInit(RefocusConfigs, { m \in OutputModes : m.uinput }, { None }, { DesktopEnviron })

NextRefocus ==
  \/ KeyEvent({ 30 }, KeyValues, LoopProbes)
  \/ Tick

SpecRefocus == InitRefocus /\ [][NextRefocus]_vars

(***************************************************************************)
(* Keys that share a name: both shift keys, and the key A remapped to      *)
(* shift, pressed and released with a dotool process.                      *)
(***************************************************************************)
ChordConfigs == { "global_mappings" :> one(s_a, s_shift) }

\* KEY_LEFTSHIFT, KEY_RIGHTSHIFT and KEY_A
ChordCodes == { 42, 54, 30 }

InitChord ==
  KeyMapperInit(ChordConfigs, { m \in OutputModes : m.dotool }, { None }, { DesktopEnviron })

NextChord == KeyEvent(ChordCodes, { 0, 1 }, { failed })

SpecChord == InitChord /\ [][NextChord]_vars

(***************************************************************************)
(* Shutdown: two keys are pressed and released, run() is interrupted and   *)
(* the calls of its finally block may raise.                               *)
(***************************************************************************)
ShutdownConfigs == { "global_mappings" :> one(s_a, s_b) }

ShutdownCodes == { 30, 46 }

InitShutdown == KeyMapperInit(ShutdownConfigs, OutputModes, { None }, { DesktopEnviron })

NextShutdown ==
  \/ KeyEvent(ShutdownCodes, { 0, 1 }, { failed })
  \/ Interrupt
  \/ Drain(Faults)

SpecShutdown == InitShutdown /\ [][NextShutdown]_vars

(***************************************************************************)
(* Forwarding: key events and events of other types, for every outcome of  *)
(* the creation of the output device.                                      *)
(***************************************************************************)
ForwardConfigs == { "global_mappings" :> one(s_a, s_b) }

\* A report, a relative movement and a scan code.
ForwardEvents ==
  { [type |-> "EV_SYN", code |-> 0, value |-> 0],
    [type |-> "EV_REL", code |-> 0, value |-> 0 - 1],
    [type |-> "EV_MSC", code |-> 4, value |-> 30] }

InitForward == KeyMapperInit(ForwardConfigs, OutputModes, { None }, { DesktopEnviron })

NextForward ==
  \/ KeyEvent({ 30 }, { 0, 1 }, { failed })
  \/ OtherEvent(ForwardEvents)

SpecForward == InitForward /\ [][NextForward]_vars

(***************************************************************************)
(* Cancellation: Ctrl+C between two events or while one is handled.        *)
(***************************************************************************)
CancelConfigs ==
  { "global_mappings" :> one(s_a, s_b), "command_mappings" :> one(s_a, s_run) }

InterruptedKeyEvent(codes, values, probes) ==
  \E key_code \in codes, value \in values, probe \in probes, pipe_ok \in BOOLEAN, cut \in Cuts :
    interrupted_key_event(key_code, value, probe, pipe_ok, cut)

InitCancel ==
  KeyMapperInit(CancelConfigs, { m \in OutputModes : m.uinput \/ m.dotool }, { None },
                { DesktopEnviron })

NextCancel ==
  \/ KeyEvent({ 30 }, { 0, 1 }, { succeeded(s_krita) })
  \/ InterruptedKeyEvent({ 30 }, { 0, 1 }, { succeeded(s_krita) })
  \/ Interrupt
  \/ Drain(NoFaults)

SpecCancel == InitCancel /\ [][NextCancel]_vars

(***************************************************************************)
(* The for loop of run() in two steps: read_loop() yields an event, and    *)
(* process_event handles it.                                               *)
(***************************************************************************)
SerialConfigs ==
  { ("global_mappings" :> one(s_a, s_b)) @@ ("command_mappings" :> one(s_c, s_run)) }

SerialCodes == { 30, 46 }

ReadEvent(codes, values) ==
  \E key_code \in codes, value \in values : read_event(key_code, value)

HandleEvent(probes) ==
  \E probe \in probes, pipe_ok \in BOOLEAN : handle_event(probe, pipe_ok)

InitSerial ==
  KeyMapperInit(SerialConfigs, { m \in OutputModes : m.uinput \/ m.dotool }, { None },
                { DesktopEnviron })

NextSerial ==
  \/ ReadEvent(SerialCodes, { 0, 1 })
  \/ HandleEvent({ succeeded(s_krita) })

SpecSerial == InitSerial /\ [][NextSerial]_vars

(***************************************************************************)
(* Commands: presses and releases of a key mapped to a command, for each   *)
(* outcome of the launch.                                                  *)
(***************************************************************************)
LaunchConfigs == { "command_mappings" :> one(s_a, s_run) }

CommandEvent(codes, values, probes) ==
  \E key_code \in codes, value \in values, probe \in probes, launch \in Launches :
    process_command_event(key_code, value, probe, launch)

InitLaunch ==
  KeyMapperInit(LaunchConfigs, { m \in OutputModes : m.uinput \/ m.dotool }, { None },
                { DesktopEnviron })

NextLaunch ==
  \/ CommandEvent({ 30, 48 }, { 0, 1 }, { succeeded(s_krita) })
  \/ Interrupt
  \/ Drain(NoFaults)

SpecLaunch == InitLaunch /\ [][NextLaunch]_vars

(***************************************************************************)
(* Privileges: one press of a key mapped to a command, for each effective  *)
(* uid and each setting of the variables read by get_original_user.        *)
(***************************************************************************)
PrivilegeConfigs == { "command_mappings" :> one(s_a, s_run) }

PrivilegeEnvirons ==
  [euid : { 0, 1000 },
   SUDO_USER : { None, Some(s_alice), Some(s_root), Some(s_empty) },
   PKEXEC_UID : { None, Some(s_1000), Some(s_0), Some(s_42), Some(s_zz) },
   XDG_RUNTIME_DIR : { None, Some(s_run_user_1000), Some(s_run_user_0), Some(s_run_user_7),
                       Some(s_tmp) },
   WAYLAND_DISPLAY : { None, Some(s_wayland_0), Some(s_run_user_1000_wayland_0) },
   DISPLAY : { None, Some(s_display_0) }]

InitPrivilege ==
  KeyMapperInit(PrivilegeConfigs, { m \in OutputModes : m.uinput }, { None }, PrivilegeEnvirons)

NextPrivilege == hist = << >> /\ KeyEvent({ 30 }, { 1 }, { succeeded(s_krita) })

SpecPrivilege == InitPrivilege /\ [][NextPrivilege]_vars

(***************************************************************************)
(* The registry functions applied to one identifier.                       *)
(***************************************************************************)
\* Identifiers: the kernel names with and without KEY_ in upper and lower case,
\* the keys of char_map and name_map, and some that name no key.
RegistryNames ==
  LET kernel == { ecodes_KEY[c] : c \in DOMAIN ecodes_KEY }
      short == { SubSeq(n, 5, Len(n)) : n \in kernel }
  IN  kernel \cup short \cup { lower(n) : n \in kernel \cup short }
        \cup DOMAIN char_map \cup DOMAIN name_map
        \cup { s_zz, s_30, s_00, s_empty, << "k", ":", "1", "2" >> }
        \cup { << d >> : d \in DOMAIN digit_value }
        \cup { s_10, s_42, s_1000, << "-", "1" >>, << " ", "3", "0", " " >>, << "3", " ", "0" >>,
               << "1", "_", "0" >>, << "+", "5" >>, << "1", "a" >>, s_cmd_x }

RegistryQuery ==
  /\ ~answer.done
  /\ answer' =
       LET code == name_to_keycode(queried)
           name == IF IsSome(code) THEN Some(keycode_to_dotool_name(Get(code))) ELSE None
       IN  [done |-> TRUE, code |-> code, name |-> name,
            back |-> IF IsSome(name) THEN name_to_keycode(Get(name)) ELSE None,
            normalized |-> normalize_config_key(queried)]
  /\ UNCHANGED << config, output_method, uinput, dotool_process, current_window,
                  window_cache_time, pressed_keys, now, loop, exc, hist, queried,
                  shutdown, environ, args, window_command >>

InitRegistry ==
  KeyMapperInit({ << >> }, { m \in OutputModes : m.uinput }, RegistryNames, { DesktopEnviron })

NextRegistry == RegistryQuery

SpecRegistry == InitRegistry /\ [][NextRegistry]_vars

(***************************************************************************)
(* Construction from the command line: main() and KeyMapper.__init__.      *)
(***************************************************************************)
\* self.output_method, in the names the transports are tested by
method(text) ==
  IF text = s_dotool THEN "dotool" ELSE IF text = s_uinput THEN "uinput" ELSE "other"

\* args.output_method after parse_args(): the option, or its default
parsed_output_method(a) ==
  IF IsSome(a.output_method) THEN Get(a.output_method) ELSE s_uinput

\* A config document with the two settings, each optional, and one table.
document(window, output) ==
  (IF IsSome(window) THEN "window_command" :> Get(window) ELSE << >>) @@
  (IF IsSome(output) THEN "output_method" :> Get(output) ELSE << >>) @@
  ("global_mappings" :> one(s_a, s_b))

\* What open() and json.load() make of the file at config_path.
ConfigFiles ==
  { [found |-> FALSE, valid |-> FALSE, document |-> << >>],
    [found |-> TRUE, valid |-> FALSE, document |-> << >>] } \cup
  { [found |-> TRUE, valid |-> TRUE, document |-> document(w, o)] :
      w \in { None, Some(s_focus_sh) },
      o \in { None, Some(s_uinput), Some(s_dotool), Some(s_DoTool) } }

\* load_config: the fields it leaves in self, and whether it called sys.exit.
load_config(file) ==
  IF ~file.found
  THEN [config |-> << >>, window_command |-> window_command,
        output_method |-> output_method, exit |-> FALSE]
  ELSE IF ~file.valid
  THEN [config |-> config, window_command |-> window_command,
        output_method |-> output_method, exit |-> TRUE]
  ELSE [config |-> file.document,
        window_command |->
          IF window_command = None /\ "window_command" \in DOMAIN file.document
          THEN Some(file.document["window_command"]) ELSE window_command,
        output_method |->
          IF "output_method" \in DOMAIN file.document
          THEN method(lower(file.document["output_method"])) ELSE output_method,
        exit |-> FALSE]

\* `if config_path:` was false
not_loaded ==
  [config |-> config, window_command |-> window_command,
   output_method |-> output_method, exit |-> FALSE]

\* KeyMapper.__init__ from line 44 on: load the config, open the device,
\* create the output transport.
construct(file, device_ok, output_ok) ==
  /\ loop = "Constructing"
  /\ \E loaded \in { IF args.config THEN load_config(file) ELSE not_loaded } :
       /\ config' = loaded.config
       /\ window_command' = loaded.window_command
       /\ output_method' = loaded.output_method
       /\ IF loaded.exit \/ ~device_ok
          THEN /\ loop' = "Exited"
               /\ exc' = "SystemExit"
               /\ UNCHANGED << uinput, dotool_process >>
          ELSE /\ loop' = "Running"
               /\ exc' = exc
               /\ uinput' = (~args.no_output /\ loaded.output_method # "dotool" /\ output_ok)
               /\ dotool_process' =
                    (~args.no_output /\ loaded.output_method = "dotool" /\ output_ok)
  /\ UNCHANGED << current_window, window_cache_time, pressed_keys, now, hist, queried,
                  answer, shutdown, environ, args >>

Construct ==
  \E file \in ConfigFiles, device_ok \in BOOLEAN, output_ok \in BOOLEAN :
    construct(file, device_ok, output_ok)

\* The command lines main() accepts, with a device path.
LoadArgs ==
  [config : BOOLEAN, no_output : BOOLEAN,
   window_command : { None, Some(s_probe_sh) },
   output_method : { None, Some(s_uinput), Some(s_dotool) }]

\* The fields as lines 29-42 assign them.
InitLoad ==
  /\ args \in LoadArgs
  /\ config = << >>
  /\ output_method = method(lower(parsed_output_method(args)))
  /\ window_command = args.window_command
  /\ uinput = FALSE
  /\ dotool_process = FALSE
  /\ current_window = None
  /\ window_cache_time = 0
  /\ pressed_keys = {}
  /\ now = window_cache_ttl
  /\ loop = "Constructing"
  /\ exc = "none"
  /\ hist = << >>
  /\ queried = None
  /\ answer = [done |-> FALSE]
  /\ shutdown = << >>
  /\ environ = DesktopEnviron

NextLoad == Construct

SpecLoad == InitLoad /\ [][NextLoad]_vars

(***************************************************************************)
(* Properties.                                                             *)
(***************************************************************************)
no_mapping == [kind |-> "none"]

command(text) == [kind |-> "command", cmd |-> text]

remap(code) ==
  IF output_method = "dotool" THEN [kind |-> "name", name |-> keycode_to_dotool_name(code)]
  ELSE [kind |-> "key", code |-> code]

\* The first event of the run, once it has been processed.
first == hist[1]

\* C1: get_mapping takes the first of window_command_mappings of the matched
\* window, command_mappings, window_mappings of the matched window and
\* global_mappings that maps the key, and None when none of them does.
C1_Precedence ==
  (hist # << >> /\ config \in PrecedenceConfigs) =>
    LET has(tn) == tn \in DOMAIN config
        focused == IsSome(first.window) /\ Get(first.window) \in { s_krita, s_Krita, s_org_kde_krita }
        value(tn) == IF tn \in { "command_mappings", "global_mappings" }
                     THEN config[tn][1][2] ELSE config[tn][1][2][1][2]
        substitution(v) == CASE v = s_b -> remap(48) [] v = s_c -> remap(46)
                             [] v = s_cmd_x -> command(<< "x" >>) [] v = s_cmd_y -> command(<< "y" >>)
    IN  first.mapped =
          IF first.code # 30 THEN no_mapping
          ELSE IF has("window_command_mappings") /\ focused THEN command(value("window_command_mappings"))
          ELSE IF has("command_mappings") THEN command(value("command_mappings"))
          ELSE IF has("window_mappings") /\ focused THEN substitution(value("window_mappings"))
          ELSE IF has("global_mappings") THEN substitution(value("global_mappings"))
          ELSE no_mapping

\* All four tables map the pressed key and the window entry matches: the
\* command of window_command_mappings is returned.
C1_Witness ==
  /\ hist # << >>
  /\ config \in PrecedenceConfigs
  /\ DOMAIN config = TableNames
  /\ first.code = 30
  /\ first.window = Some(s_org_kde_krita)
  /\ first.mapped = command(s_runw)

C2_Config == "global_mappings" :> one(s_1, s_a)

\* C2: with {"global_mappings": {"1": "a"}} and uinput, the digit key 1
\* (code 2) is remapped to the code of a (30) and the key with code 1 is
\* passed through.
C2_DigitKey ==
  (hist # << >> /\ config = C2_Config /\ output_method = "uinput") =>
    /\ first.code = 2 => first.mapped = [kind |-> "key", code |-> 30]
    /\ first.code = 1 => first.mapped = no_mapping

C2_Witness ==
  /\ hist # << >>
  /\ config = C2_Config
  /\ output_method = "uinput"
  /\ first.code = 2
  /\ first.mapped = [kind |-> "key", code |-> 30]

\* The event was resolved against a table whose only key is the decimal string
\* of the event's code, and every table that names the same key by a symbolic
\* name gives the same result.
SameAsSymbolic(codes) ==
  \A tn \in { "command_mappings", "global_mappings" } :
    (/\ hist # << >>
     /\ config \in ReprConfigs
     /\ tn \in DOMAIN config
     /\ first.code \in codes
     /\ config[tn][1][1] = str(first.code)) =>
      \A n \in SymbolicNames :
        name_to_keycode(n) = Some(first.code) =>
          first.mapped = get_mapping(tn :> one(n, config[tn][1][2]), output_method,
                                     first.window, first.code)

C4_Original ==
  (answer.done /\ IsSome(answer.code)) => answer.back = answer.code

\* C4 amended: the round trip holds for the accepted identifiers whose code
\* has an entry in key_name_map and is not a right-hand modifier; a right-hand
\* modifier comes back as the left-hand key and a k:<code> name is not accepted.
C4_RoundTrip ==
  (/\ answer.done
   /\ IsSome(answer.code)
   /\ Get(answer.code) \in DOMAIN key_name_map
   /\ Get(answer.code) \notin { 54, 97, 100, 126 }) => answer.back = answer.code

\* The alias esc is canonically escape, which is accepted as the same key.
C4_Witness ==
  /\ answer.done
  /\ queried = s_esc
  /\ answer.name = Some(s_escape)
  /\ answer.back = Some(1)

\* The window entry that the three tiers select for a focused window: the
\* position of the entry in the window table, 0 if there is none.
SelectedEntry(names, window) ==
  LET least(S) == CHOOSE i \in S : \A j \in S : i <= j
      exact == { i \in 1..Len(names) : names[i] = window }
      nocase == { i \in 1..Len(names) : lower(names[i]) = lower(window) }
      substr == { i \in 1..Len(names) :
                    contains(lower(window), lower(names[i])) \/ contains(lower(names[i]), lower(window)) }
  IN  IF exact # {} THEN least(exact)
      ELSE IF nocase # {} THEN least(nocase)
      ELSE IF substr # {} THEN least(substr)
      ELSE 0

\* C7: the window entry used for a focused window is the first exact match,
\* else the first case-insensitive match, else the first entry that contains
\* the focused name or is contained in it.
C7_WindowTiers ==
  \A tn \in { "window_command_mappings", "window_mappings" } :
    (/\ hist # << >>
     /\ config \in WindowConfigs
     /\ tn \in DOMAIN config
     /\ first.code = 30
     /\ IsSome(first.window)) =>
      LET selected == SelectedEntry(keys(config[tn]), Get(first.window))
      IN  first.mapped = IF selected = 0 THEN no_mapping ELSE command(entry_command(selected))

\* The events of hist at positions i..(i + Len(values) - 1) are key events of
\* one key with the given values, in this order.
KeySequence(i, values) ==
  /\ i + Len(values) - 1 <= Len(hist)
  /\ \A k \in 1..Len(values) :
       /\ hist[i + k - 1].type = "EV_KEY"
       /\ hist[i + k - 1].code = hist[i].code
       /\ hist[i + k - 1].value = values[k]

IsCommand(e) == e.type = "EV_KEY" /\ e.mapped.kind = "command"

\* C5: when press, repeat, repeat, release of one key all resolve to a
\* command, the command is executed once, by the press; no repeat and no
\* release of a command key executes anything.
C5_CommandOnce ==
  /\ \A i \in 1..Len(hist) :
       (KeySequence(i, << 1, 2, 2, 0 >>) /\ \A k \in 0..3 : IsCommand(hist[i + k])) =>
         /\ hist[i].exec = << hist[i].mapped.cmd >>
         /\ \A k \in 1..3 : hist[i + k].exec = << >>
  /\ \A i \in 1..Len(hist) :
       (IsCommand(hist[i]) /\ hist[i].value # 1) => hist[i].exec = << >>

C5_Witness ==
  /\ Len(hist) = 4
  /\ KeySequence(1, << 1, 2, 2, 0 >>)
  /\ \A k \in 1..4 : IsCommand(hist[k])
  /\ hist[1].exec = << s_run >>

\* The name that process_event hands to send_dotool_key for a key event.
OutputName(e) == IF e.mapped.kind = "name" THEN e.mapped.name ELSE keycode_to_dotool_name(e.code)

\* The key event is handed to a working streaming transport.
Streamed(e) ==
  /\ e.type = "EV_KEY"
  /\ output_method = "dotool"
  /\ e.mapped.kind \in { "none", "name" }
  /\ e.transport
  /\ ~e.broke

keydown(name) == [op |-> "line", verb |-> "keydown", name |-> name]

keyup(name) == [op |-> "line", verb |-> "keyup", name |-> name]

\* C6: with the dotool transport, press, repeat, release of one key, sent
\* under one name that was not down before, write keydown <name>, nothing,
\* keyup <name>; a repeat and a press of a name that is down write nothing.
C6_StreamedKeystroke ==
  /\ \A i \in 1..Len(hist) :
       (/\ KeySequence(i, << 1, 2, 0 >>)
        /\ \A k \in 0..2 : Streamed(hist[i + k]) /\ OutputName(hist[i + k]) = OutputName(hist[i])
        /\ OutputName(hist[i]) \notin hist[i].down) =>
         /\ hist[i].out = << keydown(OutputName(hist[i])) >>
         /\ hist[i + 1].out = << >>
         /\ hist[i + 2].out = << keyup(OutputName(hist[i])) >>
  /\ \A i \in 1..Len(hist) :
       (/\ Streamed(hist[i])
        /\ hist[i].value = 2 \/ (hist[i].value = 1 /\ OutputName(hist[i]) \in hist[i].down)) =>
         hist[i].out = << >>

\* Press, press again, repeat and release of the key A, remapped to b.
C6_Witness ==
  /\ Len(hist) = 4
  /\ hist[1].type = "EV_KEY" /\ hist[1].value = 1 /\ hist[1].code = 30
  /\ KeySequence(2, << 1, 2, 0 >>)
  /\ hist[2].code = 30
  /\ \A k \in 1..4 : Streamed(hist[k]) /\ OutputName(hist[k]) = s_b
  /\ hist[1].out = << keydown(s_b) >>
  /\ hist[2].out = << >>
  /\ hist[4].out = << keyup(s_b) >>

Forwarded(e) == e.type = "EV_KEY" /\ e.mapped.kind \in { "none", "key", "name" }

\* The key events among the writes of one event.
KeyWrites(out) ==
  { k \in 1..Len(out) : out[k].op = "line" \/ (out[k].op = "write" /\ out[k].type = "EV_KEY") }

\* The code that process_event hands to uinput.write for a key event.
OutputCode(e) == IF e.mapped.kind = "key" THEN e.mapped.code ELSE e.code

\* C9 as stated: a key event that resolves to a passthrough or a remap makes
\* the active transport emit exactly one key event, with the event's value.
C9_Original ==
  \A i \in 1..Len(hist) :
    LET e == hist[i] IN
    (Forwarded(e) /\ (uinput \/ Streamed(e))) =>
      /\ Cardinality(KeyWrites(e.out)) = 1
      /\ uinput => e.out[1] = [op |-> "write", type |-> "EV_KEY", code |-> OutputCode(e), value |-> e.value]

\* C9 amended: the uinput transport writes exactly one key event with the
\* resolved code and the event's value, then a sync; the dotool transport
\* writes keydown for a press of a name that is not down, keyup for a release
\* of a name that is down, and nothing for any other event.
C9_Forwarded ==
  \A i \in 1..Len(hist) :
    LET e == hist[i] IN
    /\ (Forwarded(e) /\ uinput) =>
         e.out = << [op |-> "write", type |-> "EV_KEY", code |-> OutputCode(e), value |-> e.value],
                    [op |-> "syn"] >>
    /\ (Forwarded(e) /\ Streamed(e)) =>
         e.out = IF e.value = 1 /\ OutputName(e) \notin e.down THEN << keydown(OutputName(e)) >>
                 ELSE IF e.value = 0 /\ OutputName(e) \in e.down THEN << keyup(OutputName(e)) >>
                 ELSE << >>

\* A repeat of the key A, remapped to b, reaches the uinput device as a repeat of b.
C9_Witness ==
  /\ uinput
  /\ \E i \in 1..Len(hist) :
       /\ hist[i].type = "EV_KEY"
       /\ hist[i].code = 30
       /\ hist[i].value = 2
       /\ hist[i].mapped = [kind |-> "key", code |-> 48]
       /\ hist[i].out = << [op |-> "write", type |-> "EV_KEY", code |-> 48, value |-> 2], [op |-> "syn"] >>

\* The mapping found for the event has a value that is not a key.
Unnormalizable(e) ==
  /\ e.type = "EV_KEY"
  /\ \/ e.mapped.kind = "ValueError"
     \/ e.mapped.kind = "name" /\ normalize_config_key(e.mapped.name) = << None, None >>

\* What process_event sends for the event when no mapping is found.
Unmodified(e) ==
  IF uinput
  THEN << [op |-> "write", type |-> "EV_KEY", code |-> e.code, value |-> e.value], [op |-> "syn"] >>
  ELSE IF e.transport /\ ~e.broke /\ e.value = 1 /\ keycode_to_dotool_name(e.code) \notin e.down
       THEN << keydown(keycode_to_dotool_name(e.code)) >>
  ELSE IF e.transport /\ ~e.broke /\ e.value = 0 /\ keycode_to_dotool_name(e.code) \in e.down
       THEN << keyup(keycode_to_dotool_name(e.code)) >>
  ELSE << >>

\* C10: run() leaves Running only on an interrupt, and a key whose mapping
\* value cannot be normalized is forwarded unmodified.
C10_NeverAborts ==
  /\ loop # "Running" => exc = "KeyboardInterrupt"
  /\ \A i \in 1..Len(hist) : Unnormalizable(hist[i]) => hist[i].out = Unmodified(hist[i])

\* A value of a key-mapping table that is not a command, names no key and is
\* not a number.
BadTarget(v) == ~is_command_mapping(v) /\ normalize_config_key(v) = << None, None >>

\* C11: with either transport, a key mapped to a target that can neither be
\* normalized nor parsed as a number resolves to an error, and nothing is
\* handed to the transport for it.
C11_ResolverError ==
  (/\ hist # << >>
   /\ config \in ReprConfigs
   /\ "global_mappings" \in DOMAIN config
   /\ BadTarget(config["global_mappings"][1][2])
   /\ matches(config["global_mappings"][1][1], first.code)) =>
    first.mapped.kind = "ValueError" /\ first.out = << >>

\* C12: a key event whose window command was run and failed is resolved
\* without a window, by the global tables only.
C12_ProbeFailure ==
  \A i \in 1..Len(hist) :
    (hist[i].type = "EV_KEY" /\ hist[i].probe_failed /\ config \in FocusConfigs) =>
      /\ hist[i].window = None
      /\ hist[i].mapped = [kind |-> "key", code |-> 2]

\* The events before the i-th whose window command was run and succeeded.
Successes(i) == { j \in 1..(i - 1) : hist[j].probed /\ ~hist[j].probe_failed }

Latest(S) == CHOOSE j \in S : \A k \in S : k <= j

\* Time and result of the last successful probe before the i-th event; the
\* values of __init__ if there is none.
CachedAt(i) == IF Successes(i) = {} THEN 0 ELSE hist[Latest(Successes(i))].at

CachedWindow(i) == IF Successes(i) = {} THEN None ELSE hist[Latest(Successes(i))].window

\* C13: a call less than 100 ms after the last successful probe returns the
\* window of that probe and runs no command; a call 100 ms or more after it
\* runs the command; the cached window and its time are those of the last
\* successful probe.
C13_WindowCache ==
  /\ \A i \in 1..Len(hist) :
       /\ hist[i].at - CachedAt(i) < 100 =>
            ~hist[i].probed /\ hist[i].window = CachedWindow(i)
       /\ hist[i].at - CachedAt(i) >= 100 => hist[i].probed
  /\ window_cache_time = CachedAt(Len(hist) + 1)
  /\ current_window = CachedWindow(Len(hist) + 1)

\* krita is probed, served from the cache 50 ms later, and replaced by gimp
\* when it is 100 ms old.
C13_Witness ==
  /\ Len(hist) = 3
  /\ hist[1].at = 100 /\ hist[1].probed /\ hist[1].window = Some(s_krita)
  /\ hist[2].at = 150 /\ ~hist[2].probed /\ hist[2].window = Some(s_krita)
  /\ hist[3].at = 200 /\ hist[3].probed /\ hist[3].window = Some(s_gimp)
  /\ window_cache_time = 200
  /\ current_window = Some(s_gimp)

\* C14: a write that breaks the pipe writes nothing and leaves pressed_keys
\* alone; no later key event writes a line, changes pressed_keys or finds the
\* transport; run() stays in its loop until it is interrupted.
C14_BrokenPipe ==
  /\ \A i \in 1..Len(hist) :
       (hist[i].type = "EV_KEY" /\ hist[i].broke) =>
         /\ hist[i].out = << >>
         /\ \A j \in (i + 1)..Len(hist) :
              hist[j].type = "EV_KEY" =>
                hist[j].out = << >> /\ hist[j].down = hist[i].down /\ ~hist[j].transport
         /\ pressed_keys = hist[i].down
         /\ ~dotool_process
  /\ ((\E i \in 1..Len(hist) : hist[i].type = "EV_KEY" /\ hist[i].broke) /\ loop # "Running") =>
       exc = "KeyboardInterrupt"

\* b is down, its release breaks the pipe, and the next press is processed
\* without a transport.
C14_Witness ==
  /\ Len(hist) = 3
  /\ loop = "Running"
  /\ hist[1].type = "EV_KEY" /\ hist[1].out = << keydown(s_b) >>
  /\ hist[2].type = "EV_KEY" /\ hist[2].value = 0 /\ hist[2].broke
  /\ hist[3].type = "EV_KEY" /\ hist[3].value = 1 /\ ~hist[3].transport
  /\ pressed_keys = { s_b }

\* TRUE iff the finally block of run() has been left.
Drained == loop \in { "Closed", "Aborted" }

\* The calls of the finally block when none of them is skipped.
AllSteps ==
  (IF dotool_process THEN << call("stdin.close"), call("terminate"), call("wait") >> ELSE << >>)
  \o (IF uinput THEN << call("uinput.close") >> ELSE << >>)
  \o << call("device.close") >>

\* C15: draining closes the input stream of the transport, asks it to
\* terminate, waits for it, closes the virtual output device and closes the
\* input device, in this order and each whether or not an earlier one raised,
\* and the loop is then Closed.
C15_DrainSteps ==
  Drained => shutdown = AllSteps /\ loop = "Closed"

\* C16: on shutdown a `keyup` line is written for every name still in
\* pressed_keys before the input stream of the transport is closed.
C16_KeysReleased ==
  (Drained /\ dotool_process) =>
    \A name \in pressed_keys :
      \E i, j \in 1..Len(shutdown) :
        /\ i < j
        /\ shutdown[i] = keyup(name)
        /\ shutdown[j] = call("stdin.close")

\* The user named by the hints of the environment, in the order SUDO_USER,
\* PKEXEC_UID, /run/user/<uid> path of a session variable.
HintedUser ==
  IF truthy(environ.SUDO_USER) THEN environ.SUDO_USER
  ELSE IF pkexec_user # None THEN pkexec_user
  ELSE first_session_user

\* C17: with effective uid 0 the window command and every mapped command run
\* as the user named by SUDO_USER, else PKEXEC_UID, else a /run/user/<uid>
\* path, and never as root, also when no hint names a user.
C17_NeverRoot ==
  environ.euid = 0 =>
    \A i \in 1..Len(hist) :
      /\ hist[i].probed =>
           /\ hist[i].probe_as # Some(s_root)
           /\ IsSome(HintedUser) => hist[i].probe_as = HintedUser
      /\ (hist[i].mapped.kind = "command" /\ hist[i].exec # << >>) =>
           /\ hist[i].exec_as # s_root
           /\ IsSome(HintedUser) => hist[i].exec_as = Get(HintedUser)

\* The code of the key that types the digit d: KEY_1 .. KEY_9 are 2 .. 10 and
\* KEY_0 is 11.
DigitKey(d) == IF d = "0" THEN 11 ELSE digit_value[d] + 1

\* The decimal reading of a string of digits with an optional minus sign.
RECURSIVE Decimal(_, _)
Decimal(s, acc) ==
  IF s = << >> THEN acc ELSE Decimal(Tail(s), 10 * acc + digit_value[Head(s)])

IsDecimal(s) ==
  LET body == IF s # << >> /\ Head(s) = "-" THEN Tail(s) ELSE s
  IN  body # << >> /\ \A i \in 1..Len(body) : IsDigit(body[i])

DecimalValue(s) == IF Head(s) = "-" THEN 0 - Decimal(Tail(s), 0) ELSE Decimal(s, 0)

\* The codes an event can carry.
EventCodes == 0..767

\* C18: normalize_config_key uses the code of the name when the identifier
\* names a key, so a one-digit string gives the digit key and not the code
\* equal to the digit; a decimal string that names no key gives that integer;
\* an identifier that is neither gives (None, None), which matches no code.
C18_Normalize ==
  answer.done =>
    /\ IsSome(answer.code) => answer.normalized[1] = answer.code
    /\ (Len(queried) = 1 /\ IsDigit(queried[1])) =>
         /\ answer.normalized[1] = Some(DigitKey(queried[1]))
         /\ answer.normalized[1] # Some(digit_value[queried[1]])
    /\ (~IsSome(answer.code) /\ IsDecimal(queried)) =>
         answer.normalized[1] = Some(DecimalValue(queried))
    /\ (~IsSome(answer.code) /\ ~IsSome(int(queried))) =>
         /\ answer.normalized = << None, None >>
         /\ \A c \in EventCodes : ~matches(queried, c)

\* "3" names the key with code 4, "30" is read as the code 30 and "zz" is
\* neither; the queried identifier is "30".
C18_Witness ==
  /\ answer.done
  /\ queried = s_30
  /\ answer.code = None
  /\ answer.normalized = << Some(30), Some(s_a) >>
  /\ normalize_config_key(s_3) = << Some(4), Some(s_3) >>
  /\ normalize_config_key(s_zz) = << None, None >>

\* The value of the one entry of a config of ValueConfigs.
EntryValue ==
  IF "global_mappings" \in DOMAIN config
  THEN config["global_mappings"][1][2]
  ELSE config["window_mappings"][1][2][1][2]

\* C19: a value of window_mappings or global_mappings that starts with cmd: or
\* CMD: resolves to the command made of the rest without surrounding
\* whitespace, also when the rest is empty; every other value resolves to a
\* key to send.
C19_ValueInterpretation ==
  (/\ hist # << >>
   /\ config \in ValueConfigs
   /\ hist[1].code = 30
   /\ "window_mappings" \in DOMAIN config => hist[1].window = Some(s_krita)) =>
    IF startswith(EntryValue, cmd_) \/ startswith(EntryValue, CMD_)
    THEN hist[1].mapped = [kind |-> "command", cmd |-> strip(SubSeq(EntryValue, 5, Len(EntryValue)))]
    ELSE hist[1].mapped.kind \in { "key", "name" }

\* The entries of a table whose key normalizes to the code c.
Normalizing(table, c) ==
  { i \in 1..Len(table) : normalize_config_key(table[i][1])[1] = Some(c) }

\* The identifiers tried by direct containment for the code c, in order: the
\* decimal code, the name, the name in lower case and in upper case.
Candidates(c) ==
  << str(c), keycode_to_dotool_name(c), lower(keycode_to_dotool_name(c)),
     upper(keycode_to_dotool_name(c)) >>

\* The candidates for c that are keys of the table and normalize to c.
Contained(table, c) ==
  { n \in 1..4 : /\ \E i \in 1..Len(table) : table[i][1] = Candidates(c)[n]
                 /\ normalize_config_key(Candidates(c)[n])[1] = Some(c) }

\* C20: the entry used for an event with code c has a key that normalizes to
\* c; when a key of the table normalizes to c an entry is used: that of the
\* first candidate contained in the table that normalizes to c, and without
\* one that of the first key in table order that normalizes to c.
C20_TableLookup ==
  (hist # << >> /\ config \in TableConfigs) =>
    LET table == config["command_mappings"]
        c == hist[1].code
        used == { i \in 1..Len(table) :
                    hist[1].mapped = [kind |-> "command", cmd |-> table[i][2]] }
    IN  /\ used \subseteq Normalizing(table, c)
        /\ Normalizing(table, c) # {} => used # {}
        /\ Normalizing(table, c) = {} => hist[1].mapped = [kind |-> "none"]
        /\ Contained(table, c) # {} =>
             \E n \in Contained(table, c) :
               /\ \A m \in Contained(table, c) : n <= m
               /\ \A i \in used : table[i][1] = Candidates(c)[n]
        /\ Contained(table, c) = {} =>
             \A i \in used : \A j \in Normalizing(table, c) : i <= j

\* The table is {"2": run1, "1": run2} and the code is 2: the candidate "2"
\* is a key of the table but names the key with code 3, and the entry used
\* is that of "1", the first key that normalizes to 2.
C20_Witness ==
  /\ hist # << >>
  /\ config = "command_mappings" :> << << s_2, entry_command(1) >>, << s_1, entry_command(2) >> >>
  /\ hist[1].code = 2
  /\ hist[1].mapped = [kind |-> "command", cmd |-> entry_command(2)]

\* C21: two calls of get_focused_window that run the window command are at
\* least 100 ms apart, also while the command keeps failing.
C21_ProbeRate ==
  \A i, j \in 1..Len(hist) :
    (i < j /\ hist[i].probed /\ hist[j].probed) => hist[j].at - hist[i].at >= 100

\* C22: resolving a key event runs no external command, whatever tables the
\* config contains.
C22_NoExternalCall ==
  \A i \in 1..Len(hist) : hist[i].type = "EV_KEY" => ~hist[i].probed

\* The write of an event to an output device.
WriteOf(e) == [op |-> "write", type |-> e.type, code |-> e.code, value |-> e.value]

\* C23 as stated: an event that is not a key event is written with its type,
\* code and value when a uinput device or a dotool process is there, and
\* nothing is written without both.
C23_ForwardedByAnyTransport ==
  \A i \in 1..Len(hist) :
    hist[i].type # "EV_KEY" =>
      IF uinput \/ hist[i].transport
      THEN hist[i].out # << >> /\ hist[i].out[1] = WriteOf(hist[i])
      ELSE hist[i].out = << >>

\* C23: an event that is not a key event is written with its type, code and
\* value when a uinput device is there; nothing is written with dotool or
\* without an output device.
C23_Forwarded ==
  \A i \in 1..Len(hist) :
    hist[i].type # "EV_KEY" =>
      IF uinput
      THEN /\ hist[i].out # << >>
           /\ hist[i].out[1] = WriteOf(hist[i])
           /\ \A k \in 1..Len(hist[i].out) :
                hist[i].out[k].op = "write" => hist[i].out[k] = WriteOf(hist[i])
      ELSE hist[i].out = << >>

\* A relative movement and a report are written to the uinput device, the
\* report followed by one more synchronization.
C23_Witness ==
  /\ Len(hist) = 2
  /\ uinput
  /\ hist[1].type = "EV_REL"
  /\ hist[1].out = << [op |-> "write", type |-> "EV_REL", code |-> 0, value |-> 0 - 1] >>
  /\ hist[2].type = "EV_SYN"
  /\ hist[2].out = << [op |-> "write", type |-> "EV_SYN", code |-> 0, value |-> 0],
                      [op |-> "syn"] >>

\* The handling of a key event ran to its end: the event was resolved, a write
\* to the uinput device was followed by syn() and a line written to dotool by
\* the update of pressed_keys.
Completed(e) == "cut" \notin DOMAIN e

\* C24: every key event whose handling has begun is resolved and dispatched
\* to the end before run() leaves its loop, also when Ctrl+C arrives while it
\* is handled.
C24_Cooperative ==
  \A i \in 1..Len(hist) : hist[i].type = "EV_KEY" => Completed(hist[i])

\* The names that are down after the lines of an event were written, given
\* those that were down before it.
DownAfter(e) ==
  LET lines == { k \in 1..Len(e.out) : e.out[k].op = "line" }
  IN  (e.down \cup { e.out[k].name : k \in { n \in lines : e.out[n].verb = "keydown" } })
        \ { e.out[k].name : k \in { n \in lines : e.out[n].verb = "keyup" } }

\* The events of hist that process_event has returned for.
Handled == { i \in 1..Len(hist) : "pending" \notin DOMAIN hist[i] }

\* C25: an event is read only when every earlier event has been handled, so at
\* most the last event read is unhandled; the handled events are those read,
\* in the order read; and each event finds pressed_keys as the event before it
\* left it.
C25_OneAtATime ==
  /\ \A i \in 1..Len(hist) : i \notin Handled => i = Len(hist)
  /\ \A i \in Handled :
       /\ hist[i].type = "EV_KEY"
       /\ hist[i].down = IF i = 1 THEN {} ELSE DownAfter(hist[i - 1])
       /\ (i = Len(hist) \/ i + 1 \notin Handled) => pressed_keys = DownAfter(hist[i])

\* With dotool: the press of a was handled before its release was read, the
\* release before the press of c, and the press of c is read and not yet
\* handled.
C25_Witness ==
  /\ Len(hist) = 3
  /\ hist[1].out = << keydown(s_b) >>
  /\ hist[2].down = { s_b } /\ hist[2].out = << keyup(s_b) >>
  /\ pending /\ hist[3].code = 46
  /\ pressed_keys = {}

\* C26: a press of a key mapped to a command ends with the loop still running,
\* whether the command ends, never ends or cannot be started; run() waits for
\* no command and leaves its loop only when it is interrupted.
C26_Detached ==
  /\ loop \in { "Running", "Draining", "Closed" }
  /\ loop # "Running" => exc = "KeyboardInterrupt"
  /\ \A i \in 1..Len(hist) :
       (hist[i].mapped.kind = "command" /\ hist[i].value = 1) =>
         /\ hist[i].exec = IF hist[i].launch = "fails" THEN << >> ELSE << hist[i].mapped.cmd >>
         /\ hist[i].out = << >>

\* A command that never ends was started by the first press, the launch
\* failed at the second, and a third event was handled after both.
C26_Witness ==
  /\ Len(hist) = 3
  /\ loop = "Running"
  /\ hist[1].code = 30 /\ hist[1].value = 1
  /\ hist[1].launch = "never_ends" /\ hist[1].exec = << s_run >>
  /\ hist[2].code = 30 /\ hist[2].value = 1
  /\ hist[2].launch = "fails" /\ hist[2].exec = << >>
  /\ hist[3].code = 48

\* No output device was created by __init__: there is no uinput device and
\* there has never been a dotool process.
ReadOnly ==
  /\ ~uinput
  /\ ~dotool_process
  /\ \A i \in 1..Len(hist) : ~hist[i].transport

\* C27: without an output device run() handles every event, leaving its loop
\* only when it is interrupted, and nothing is written for a key event or for
\* an event of another type.
C27_ReadOnly ==
  ReadOnly =>
    /\ loop # "Running" => exc = "KeyboardInterrupt"
    /\ \A i \in 1..Len(hist) : hist[i].out = << >>

\* The record of the event handled by a step that appends to hist.
Handling == hist'[Len(hist')]

\* C28: pressed_keys changes only in a step that writes a line to dotool, and
\* then by the name of that line; resolving, probing, executing a command and
\* writing to the uinput device leave it alone; config never changes.
C28_Frame ==
  [][/\ config' = config
     /\ pressed_keys' # pressed_keys =>
          /\ output_method = "dotool" /\ dotool_process
          /\ Len(hist') = Len(hist) + 1
          /\ Handling.type = "EV_KEY"
          /\ Handling.mapped.kind \in { "none", "name" }
          /\ Len(Handling.out) = 1 /\ Handling.out[1].op = "line"
          /\ pressed_keys' = DownAfter(Handling)]_vars

\* The press of a wrote `keydown b` and put b into pressed_keys, and the scan
\* code that followed left it there.
C28_Witness ==
  /\ Len(hist) = 2
  /\ hist[1].type = "EV_KEY" /\ hist[1].probed /\ hist[1].out = << keydown(s_b) >>
  /\ hist[2].type = "EV_MSC"
  /\ pressed_keys = { s_b }


\* C29: once constructed, the window command and the output method are those
\* of the command line whenever it set them, and are taken from the config
\* file (or the default) only when it did not.
C29_CommandLineWins ==
  loop = "Running" =>
    /\ window_command =
         IF IsSome(args.window_command) THEN args.window_command
         ELSE get(config, "window_command")
    /\ output_method =
         IF IsSome(args.output_method) THEN method(Get(args.output_method))
         ELSE IF "output_method" \in DOMAIN config
              THEN method(lower(config["output_method"]))
              ELSE "uinput"

\* The lines written to the stdin of dotool by the first n events, in order.
RECURSIVE LinesUpTo(_)
LinesUpTo(n) ==
  IF n = 0 THEN << >>
  ELSE LinesUpTo(n - 1) \o SelectSeq(hist[n].out, LAMBDA w : w.op = "line")

\* C30: for every output name the lines written to dotool are keydown, keyup,
\* keydown, ... in turn, beginning with keydown, so no keyup is written for a
\* name that is not down; and pressed_keys holds exactly the names whose last
\* line is a keydown.
C30_WellFormed ==
  \E lines \in { LinesUpTo(Len(hist)) } :
    \A name \in { lines[k].name : k \in 1..Len(lines) } \cup pressed_keys :
      \E mine \in { SelectSeq(lines, LAMBDA w : w.name = name) } :
        /\ \A k \in 1..Len(mine) :
             mine[k].verb = IF k % 2 = 1 THEN "keydown" ELSE "keyup"
        /\ name \in pressed_keys <=> (mine # << >> /\ mine[Len(mine)].verb = "keydown")

\* With dotool: a is pressed twice, released and pressed again; b goes down,
\* the second press writes nothing, then b goes up and down again.
C30_Witness ==
  /\ Len(hist) = 4
  /\ \A i \in 1..4 : hist[i].type = "EV_KEY" /\ hist[i].code = 30
  /\ hist[1].value = 1 /\ hist[1].out = << keydown(s_b) >>
  /\ hist[2].value = 1 /\ hist[2].out = << >> /\ ~hist[2].broke
  /\ hist[3].value = 0 /\ hist[3].out = << keyup(s_b) >>
  /\ hist[4].value = 1 /\ hist[4].out = << keydown(s_b) >>
  /\ pressed_keys = { s_b }

\* C31: every key event is resolved by get_mapping for the window that
\* get_focused_window returned at that event and for its own code, whatever
\* the earlier events of the key resolved to; the uinput device is written the
\* code of that resolution, and nothing when it is a command.
C31_ResolvedPerEvent ==
  \A i \in 1..Len(hist) :
    hist[i].type = "EV_KEY" =>
      /\ hist[i].mapped = get_mapping(config, output_method, hist[i].window, hist[i].code)
      /\ (uinput /\ hist[i].mapped.kind = "command") => hist[i].out = << >>
      /\ (uinput /\ hist[i].mapped.kind \in { "none", "key" }) =>
           hist[i].out =
             << [op |-> "write", type |-> "EV_KEY", code |-> OutputCode(hist[i]),
                 value |-> hist[i].value],
                [op |-> "syn"] >>

\* With a uinput device: A is pressed in gimp and written as a press of b (48);
\* the focus moves to krita; the release of A is written as a release of c
\* (46).  b is left down and c is released without having been pressed.
C31_Witness ==
  /\ uinput
  /\ Len(hist) = 2
  /\ hist[1].code = 30 /\ hist[1].value = 1 /\ hist[1].window = Some(s_gimp)
  /\ hist[1].out = << [op |-> "write", type |-> "EV_KEY", code |-> 48, value |-> 1],
                      [op |-> "syn"] >>
  /\ hist[2].code = 30 /\ hist[2].value = 0 /\ hist[2].window = Some(s_krita)
  /\ hist[2].out = << [op |-> "write", type |-> "EV_KEY", code |-> 46, value |-> 0],
                      [op |-> "syn"] >>

\* The result of a window tier and the tier behind it when the one entry the
\* three tiers select is consulted: the command of that entry if it holds the
\* key of the event, else what the next tier gives (a command for A, nothing
\* for any other key).
SelectedResult(table, key_code) ==
  LET selected == SelectedEntry(keys(table), Get(first.window))
  IN  IF selected # 0 /\ matches(table[selected][2][1][1], key_code)
      THEN command(entry_command(selected))
      ELSE IF key_code = 30 THEN command(s_rung) ELSE no_mapping

\* C32: in each window tier the entry consulted is the first one that the
\* winning match tier gives for the focused window, and no other: the event
\* gets the command of that entry if it holds the key, and falls through to
\* the next tier if it does not, whatever the other entries hold.
C32_SingleEntry ==
  \A tn \in { "window_command_mappings", "window_mappings" } :
    (/\ hist # << >>
     /\ config \in SelectConfigs
     /\ tn \in DOMAIN config
     /\ IsSome(first.window)) =>
      first.mapped = SelectedResult(config[tn], first.code)

\* The events i..i+3 are handed to a working dotool process under one name
\* that is not down: two different keys are pressed, then both are released,
\* in either order.
HeldTogether(i) ==
  /\ i + 3 <= Len(hist)
  /\ \A k \in 0..3 :
       /\ Streamed(hist[i + k])
       /\ ~hist[i + k].broke
       /\ OutputName(hist[i + k]) = OutputName(hist[i])
  /\ OutputName(hist[i]) \notin hist[i].down
  /\ hist[i].value = 1 /\ hist[i + 1].value = 1
  /\ hist[i + 1].code # hist[i].code
  /\ hist[i + 2].value = 0 /\ hist[i + 3].value = 0
  /\ { hist[i + 2].code, hist[i + 3].code } = { hist[i].code, hist[i + 1].code }

\* C33: when two physical keys with one dotool name are held together, the
\* first press writes the keydown, the second press writes nothing, the first
\* release writes the keyup although the other key is still held, and the
\* second release writes nothing.
C33_SharedName ==
  \A i \in 1..Len(hist) :
    HeldTogether(i) =>
      /\ hist[i].out = << keydown(OutputName(hist[i])) >>
      /\ hist[i + 1].out = << >>
      /\ hist[i + 2].out = << keyup(OutputName(hist[i])) >>
      /\ OutputName(hist[i]) \notin hist[i + 3].down
      /\ hist[i + 3].out = << >>

\* Left shift and right shift are pressed, then released in the same order:
\* one keydown and one keyup of shift are written, the keyup while right shift
\* is still held.
C33_Witness ==
  /\ Len(hist) = 4
  /\ HeldTogether(1)
  /\ hist[1].code = 42 /\ hist[2].code = 54 /\ hist[3].code = 42 /\ hist[4].code = 54
  /\ hist[1].out = << keydown(s_shift) >>
  /\ hist[3].out = << keyup(s_shift) >>
  /\ pressed_keys = {}

\* C34: an event that resolves to a command writes nothing to any transport
\* and leaves pressed_keys and the dotool process as they are, whatever its
\* value; its press executes the command, once, with a uinput device, with a
\* dotool process, and with no transport at all.
C34_CommandAnyTransport ==
  \A i \in 1..Len(hist) :
    IsCommand(hist[i]) =>
      /\ hist[i].out = << >>
      /\ ~hist[i].broke
      /\ hist[i].exec = IF hist[i].value = 1 THEN << hist[i].mapped.cmd >> ELSE << >>
      /\ IF i < Len(hist)
         THEN hist[i + 1].type = "EV_KEY" =>
                hist[i + 1].down = hist[i].down /\ hist[i + 1].transport = hist[i].transport
         ELSE pressed_keys = hist[i].down /\ dotool_process = hist[i].transport

\* With dotool: the press of the key 1 breaks the pipe, which leaves no
\* transport; the press of A that follows runs its command and writes nothing.
C34_Witness ==
  /\ Len(hist) = 2
  /\ output_method = "dotool" /\ ~dotool_process /\ ~uinput
  /\ hist[1].type = "EV_KEY" /\ hist[1].code = 2 /\ hist[1].broke
  /\ hist[2].type = "EV_KEY" /\ hist[2].code = 30 /\ hist[2].value = 1
  /\ ~hist[2].transport
  /\ hist[2].mapped = command(s_run)
  /\ hist[2].exec = << s_run >>
  /\ hist[2].out = << >>

\* The value of the one entry of a config of VerbatimConfigs.
CommandValue ==
  IF "command_mappings" \in DOMAIN config
  THEN config["command_mappings"][1][2]
  ELSE config["window_command_mappings"][1][2][1][2]

\* C35: a value found in window_command_mappings or command_mappings is the
\* text of the command as it stands, prefix and blanks included; for the same
\* value found in window_mappings or global_mappings, when it starts with cmd:
\* or CMD:, get_command_from_mapping gives the rest without surrounding
\* whitespace, which is the text of the command returned, never the value as
\* it stands.
C35_Verbatim ==
  (/\ hist # << >>
   /\ first.code = 30
   /\ DOMAIN config \cap { "window_command_mappings", "window_mappings" } # {} =>
        first.window = Some(s_krita)) =>
    /\ config \in VerbatimConfigs => first.mapped = command(CommandValue)
    /\ (config \in ValueConfigs /\ is_command_mapping(EntryValue)) =>
         /\ get_command_from_mapping(EntryValue) =
              Some(strip(SubSeq(EntryValue, 5, Len(EntryValue))))
         /\ first.mapped # command(EntryValue)
         /\ first.mapped.kind = "command" =>
              first.mapped.cmd = strip(SubSeq(EntryValue, 5, Len(EntryValue)))

\* The value "cmd: x " of command_mappings is the command as it stands.
C35_Witness ==
  /\ hist # << >>
  /\ first.code = 30
  /\ config = ("command_mappings" :> one(s_a, <<"c","m","d",":"," ","x"," ">>))
  /\ first.mapped = command(<<"c","m","d",":"," ","x"," ">>)
  /\ first.exec = << <<"c","m","d",":"," ","x"," ">> >>
  /\ get_command_from_mapping(<<"c","m","d",":"," ","x"," ">>) = Some(<<"x">>)

\* The entries of a table in the opposite order.
Reversed(table) == [i \in 1..Len(table) |-> table[Len(table) + 1 - i]]

\* The least and the greatest element of a set of positions.
Least(S) == CHOOSE i \in S : \A j \in S : i <= j

Greatest(S) == CHOOSE i \in S : \A j \in S : j <= i

\* C36: when several keys of a table normalize to the code of the event and
\* one of them is a candidate (the decimal code, the name, its lower and upper
\* case), the entry of the first such candidate in candidate order is used,
\* and the same entry is used when the table is in the opposite order; when
\* none of them is a candidate, the first in table order is used, and the
\* other end when the table is in the opposite order.
C36_CandidatePriority ==
  (/\ hist # << >>
   /\ config \in TableConfigs
   /\ Cardinality(Normalizing(config["command_mappings"], first.code)) >= 2) =>
    \E table \in { config["command_mappings"] } :
      IF Contained(table, first.code) # {}
      THEN /\ first.mapped =
                command(Lookup(table, Candidates(first.code)[Least(Contained(table, first.code))]))
           /\ get_mapping("command_mappings" :> Reversed(table), output_method,
                          first.window, first.code) = first.mapped
      ELSE /\ first.mapped = command(table[Least(Normalizing(table, first.code))][2])
           /\ get_mapping("command_mappings" :> Reversed(table), output_method,
                          first.window, first.code) =
                command(table[Greatest(Normalizing(table, first.code))][2])

\* The table is {"KEY_A": run1, "A": run2} and the code is 30: both keys
\* normalize to 30, and the entry used is that of the candidate "A" although
\* "KEY_A" comes first in the table.
C36_Witness ==
  /\ hist # << >>
  /\ config = "command_mappings" :> << << s_KEY_A, entry_command(1) >>, << s_A, entry_command(2) >> >>
  /\ first.code = 30
  /\ first.mapped = command(entry_command(2))


====
